---- MODULE Spec2Model ----
(***************************************************************************)
(* Model of mcp-server-mysql: the classify -> authorize -> execute-in-     *)
(* transaction -> format pipeline of the schema-permission server          *)
(* (README-MULTI-DB.md, first listing; the executor is the same code as    *)
(* index.ts), and the driver objects it calls (pool, connection).          *)
(*                                                                         *)
(* An SQL text is represented by what the code looks at: whether           *)
(* node-sql-parser accepts it, the sequence of statement types the parser  *)
(* reports, the identifier of the first "USE x" match and the first        *)
(* identifier of the first "a.b" match of the two regular expressions of   *)
(* extractSchemaFromQuery.  Whitespace (trim) is not represented.          *)
(***************************************************************************)
EXTENDS Integers, Sequences, FiniteSets, TLC

\* ------------------------------------------------------------------ bounds
MaxStmts == 2       \* statements per SQL text
MaxPairs == 1       \* schema:value pairs per SCHEMA_*_PERMISSIONS string
MaxPools == 2       \* pools createPool makes in one run of the manager
MaxConns == 1       \* connections of the pool (connectionLimit)
MaxConfigs == 2     \* entries of the connection configuration file
MaxRows == 1        \* rows a statement affects or returns

\* --------------------------------------------------------------- constants
NoSchema == "null"                  \* JS null / undefined / '' (all falsy)
NoError  == "none"
NoResult == [kind |-> "pending"]
NoId == "null"                      \* activeConnectionId: null
NoPool == 0                         \* getActivePool(): null
SetReadOnly  == "SET SESSION TRANSACTION READ ONLY"
SetReadWrite == "SET SESSION TRANSACTION READ WRITE"

Categories == {"insert", "update", "delete", "ddl"}
DDLTypes   == {"create", "alter", "drop", "truncate"}
\* "use" also stands for the statement types the code puts in no category
StatementTypes == {"select", "insert", "update", "delete", "use"} \cup DDLTypes

\* schema names that occur in SQL texts: one with override entries, one without
SchemaNames == {"test_schema_1", "Test_Schema_2"}
\* names every JS object literal inherits from Object.prototype
ObjectPrototypeKeys == {"constructor"}
\* JS values a permission function can return: a boolean, or an inherited
\* member of Object.prototype (a function object)
JSBoolean(b) == [type |-> "boolean", value |-> b]
PrototypeMember == [type |-> "function", value |-> TRUE]

VARIABLES
    \* process configuration, fixed at module load
    ALLOW_INSERT_OPERATION, ALLOW_UPDATE_OPERATION,
    ALLOW_DELETE_OPERATION, ALLOW_DDL_OPERATION,
    SCHEMA_INSERT_PERMISSIONS, SCHEMA_UPDATE_PERMISSIONS,
    SCHEMA_DELETE_PERMISSIONS, SCHEMA_DDL_PERMISSIONS,
    MYSQL_DB,
    \* the lazily created pool and its (single) pooled connection
    poolPromise,        \* "unset" | "resolved" | "rejected"
    session,            \* [mode, txnOpen, txnDirty] of the pooled connection
    \* the invocation in progress
    pc,                 \* position in the running function, "idle" when none
    entry,              \* the exported function that was called
    sql,                \* its argument
    connection,         \* local `connection`: TRUE once getConnection returned
    error,              \* the error travelling through the catch blocks
    result,             \* what the caller gets: envelope, rows or thrown error
    \* history of the invocation in progress
    trace,              \* driver operations invoked, in order, with outcome
    verdicts,           \* categories the permission functions allowed
    strategy,           \* "read-only" | "write" | "plain", "none" before
    dbChanged,          \* a commit made a change of this invocation durable
    \* last application of a permission function (resolver specification)
    lookup,
    \* ConnectionManager (multi-connection server)
    configs,            \* ids of the loaded connection configurations
    connections,        \* Map id -> pool, as its entries in insertion order
    activeConnectionId,
    pools,              \* every pool createPool returned: "open" | "ended"
    tasks,              \* the manager operations in progress
    activePool          \* local `activePool` of the running mysql_query

config == <<ALLOW_INSERT_OPERATION, ALLOW_UPDATE_OPERATION,
            ALLOW_DELETE_OPERATION, ALLOW_DDL_OPERATION,
            SCHEMA_INSERT_PERMISSIONS, SCHEMA_UPDATE_PERMISSIONS,
            SCHEMA_DELETE_PERMISSIONS, SCHEMA_DDL_PERMISSIONS, MYSQL_DB>>
call   == <<pc, entry, sql, connection, error, result>>
hist   == <<trace, verdicts, strategy, dbChanged>>
manager == <<configs, connections, activeConnectionId, pools, tasks>>
vars   == <<config, poolPromise, session, call, hist, lookup, manager,
            activePool>>

\* ------------------------------------------------- parseSchemaPermissions
EmptyMap == [k \in {} |-> TRUE]

SetProperty(obj, key, value) ==
    [k \in (DOMAIN obj) \cup {key} |-> IF k = key THEN value ELSE obj[k]]

RECURSIVE parsePairs(_, _)
parsePairs(permissionPairs, permissions) ==
    IF permissionPairs = <<>> THEN permissions
    ELSE LET pair == Head(permissionPairs)
         IN  parsePairs(Tail(permissionPairs),
                 IF pair.schema # "" /\ pair.value # ""
                 THEN SetProperty(permissions, pair.schema, pair.value = "true")
                 ELSE permissions)

\* permissionsString is the sequence of its comma separated schema:value pairs;
\* <<>> is the unset (or empty) environment variable
parseSchemaPermissions(permissionsString) ==
    IF permissionsString = <<>> THEN EmptyMap
    ELSE parsePairs(permissionsString, EmptyMap)

\* ------------------------------------------------ JS object member access
\* `key in obj` : own properties and those inherited from Object.prototype
HasProperty(obj, key) == key \in DOMAIN obj \/ key \in ObjectPrototypeKeys

\* `obj[key]`
GetProperty(obj, key) ==
    IF key \in DOMAIN obj THEN JSBoolean(obj[key])
    ELSE IF key \in ObjectPrototypeKeys THEN PrototypeMember
    ELSE JSBoolean(FALSE)

\* JS truthiness of a value returned by a permission function
Truthy(v) == v.type = "function" \/ v.value

\* --------------------------------------------------- permission functions
isInsertAllowedForSchema(schema) ==
    IF schema = NoSchema THEN JSBoolean(ALLOW_INSERT_OPERATION)
    ELSE IF HasProperty(SCHEMA_INSERT_PERMISSIONS, schema)
         THEN GetProperty(SCHEMA_INSERT_PERMISSIONS, schema)
         ELSE JSBoolean(ALLOW_INSERT_OPERATION)

\* mutant: the override map is not consulted
isUpdateAllowedForSchema_ignoresOverride(schema) ==
    JSBoolean(ALLOW_UPDATE_OPERATION)

isUpdateAllowedForSchema(schema) ==
    IF schema = NoSchema THEN JSBoolean(ALLOW_UPDATE_OPERATION)
    ELSE IF HasProperty(SCHEMA_UPDATE_PERMISSIONS, schema)
         THEN GetProperty(SCHEMA_UPDATE_PERMISSIONS, schema)
         ELSE JSBoolean(ALLOW_UPDATE_OPERATION)

isDeleteAllowedForSchema(schema) ==
    IF schema = NoSchema THEN JSBoolean(ALLOW_DELETE_OPERATION)
    ELSE IF HasProperty(SCHEMA_DELETE_PERMISSIONS, schema)
         THEN GetProperty(SCHEMA_DELETE_PERMISSIONS, schema)
         ELSE JSBoolean(ALLOW_DELETE_OPERATION)

isDDLAllowedForSchema(schema) ==
    IF schema = NoSchema THEN JSBoolean(ALLOW_DDL_OPERATION)
    ELSE IF HasProperty(SCHEMA_DDL_PERMISSIONS, schema)
         THEN GetProperty(SCHEMA_DDL_PERMISSIONS, schema)
         ELSE JSBoolean(ALLOW_DDL_OPERATION)

\* ------------------------------------------------------------ classifier
isMultiDbMode == MYSQL_DB = NoSchema

extractSchemaFromQuery(q) ==
    LET defaultSchema == MYSQL_DB
    IN  IF defaultSchema # NoSchema /\ ~isMultiDbMode THEN defaultSchema
        ELSE IF q.useMatch # NoSchema THEN q.useMatch
        ELSE IF q.dbTableMatch # NoSchema THEN q.dbTableMatch
        ELSE defaultSchema

\* the statement types of a text the parser accepts
\* String.prototype.toLocaleLowerCase on a schema name
LowerCase(name) == IF name = "Test_Schema_2" THEN "test_schema_2" ELSE name

\* sql.toLocaleLowerCase(): the text handed to connection.query
toLocaleLowerCase(q) ==
    [q EXCEPT !.useMatch = LowerCase(@), !.dbTableMatch = LowerCase(@)]

getQueryTypes(q) == q.types

Some(types, set) == \E i \in 1..Len(types) : types[i] \in set

isInsertOperation(q) == Some(getQueryTypes(q), {"insert"})
isUpdateOperation(q) == Some(getQueryTypes(q), {"update"})
isDeleteOperation(q) == Some(getQueryTypes(q), {"delete"})
isDDLOperation(q)    == Some(getQueryTypes(q), DDLTypes)


\* ------------------------------------------------------------ SQL texts
TypeSeqs == UNION {[1..n -> StatementTypes] : n \in 1..MaxStmts}

HasUse(types) == Some(types, {"use"})

\* a parsed text has a USE match exactly if it has a USE statement
ParsedTexts ==
    {[parses |-> TRUE, types |-> t, useMatch |-> u, dbTableMatch |-> d] :
        t \in TypeSeqs, u \in SchemaNames \cup {NoSchema},
        d \in SchemaNames \cup {NoSchema}}

UnparsableText ==
    [parses |-> FALSE, types |-> <<>>, useMatch |-> NoSchema,
     dbTableMatch |-> NoSchema]

SqlTexts ==
    {q \in ParsedTexts : HasUse(q.types) <=> q.useMatch # NoSchema}
        \cup {UnparsableText}

\* texts handed to executeWriteQuery without the checks of executeReadOnlyQuery
DirectTexts == {q \in SqlTexts : Len(q.types) <= 1}

\* 'SELECT table_name FROM information_schema.tables ...' and the like
ResourceTexts ==
    {q \in SqlTexts : q.types = <<"select">> /\ q.dbTableMatch = NoSchema}

NoSql == [parses |-> FALSE, types |-> <<>>, useMatch |-> "-", dbTableMatch |-> "-"]

\* ------------------------------------------------- driver (environment)
FreshSession ==
    [mode |-> "rw", txnOpen |-> FALSE, txnDirty |-> FALSE, txnReadOnly |-> FALSE]

\* the statement would change rows or structure
Modifies(q) ==
    Some(q.types, {"insert", "update", "delete"} \cup DDLTypes)

\* MySQL rejects a modifying statement in a READ ONLY transaction (and, with
\* autocommit, on a READ ONLY session); everything else may succeed or fail
CanSucceed(op, s, q) ==
    op = "query" =>
        ~(Modifies(q) /\ (IF s.txnOpen THEN s.txnReadOnly ELSE s.mode = "ro"))

Effect(op, ok, s, q) ==
    IF ~ok THEN s
    ELSE CASE op = "SET SESSION TRANSACTION READ ONLY" -> [s EXCEPT !.mode = "ro"]
           [] op = "SET SESSION TRANSACTION READ WRITE" -> [s EXCEPT !.mode = "rw"]
           [] op = "beginTransaction" ->
                [s EXCEPT !.txnOpen = TRUE, !.txnDirty = FALSE,
                          !.txnReadOnly = (s.mode = "ro")]
           [] op = "query" ->
                [s EXCEPT !.txnDirty = @ \/ (s.txnOpen /\ Modifies(q))]
           [] op \in {"commit", "rollback"} ->
                [s EXCEPT !.txnOpen = FALSE, !.txnDirty = FALSE,
                          !.txnReadOnly = FALSE]
           [] OTHER -> s

\* a change becomes durable by a commit, or at once without a transaction
Durable(op, ok, s, q) ==
    ok /\ \/ op = "commit" /\ s.txnDirty
          \/ op = "query" /\ ~s.txnOpen /\ Modifies(q)

Op(op, ok) == [op |-> op, ok |-> ok]

\* mutant: the finally block is missing
Finally_missing(conn) == <<>>

\* finally { if (connection) connection.release() }
Finally(conn) == IF conn THEN <<Op("release", TRUE)>> ELSE <<>>

\* one driver call on the held connection; `after` is what the same
\* synchronous stretch of code appends (the release of the finally block)
Driver(op, ok, after) ==
    /\ ok => CanSucceed(op, session, sql)
    /\ trace' = (trace \o <<Op(op, ok)>>) \o after
    /\ session' = Effect(op, ok, session, sql)
    /\ dbChanged' = (dbChanged \/ Durable(op, ok, session, sql))

\* ------------------------------------------------------ caller's results
Text(msg, category, schema, cause) ==
    [msg |-> msg, category |-> category, schema |-> schema, cause |-> cause]

Envelope(isError, text) ==
    [kind |-> "envelope", isError |-> isError, text |-> text]

Thrown(e) == [kind |-> "thrown", error |-> e]

Rows == [kind |-> "rows"]

\* --------------------------------------------------------------- getPool
\* the promise getPool returns; createPool runs only while none is stored
getPool(created) ==
    IF poolPromise = "unset"
    THEN (IF created THEN "resolved" ELSE "rejected")
    ELSE poolPromise

getPoolOps_recreates(created) ==
    <<Op("createPool", created), Op("getPool", getPool(created) = "resolved")>>

\* await getPool(): operations it adds to the trace
getPoolOps(created) ==
    (IF poolPromise = "unset" THEN <<Op("createPool", created)>> ELSE <<>>)
        \o <<Op("getPool", getPool(created) = "resolved")>>

AwaitGetPool(created) ==
    /\ poolPromise # "unset" => created
    /\ poolPromise' = getPool(created)
    /\ trace' = trace \o getPoolOps(created)

\* the manager operations that can be in flight together
MTasks == {"t1", "t2"}

\* process.exit(0) of the signal handlers has not run
Running == \A t \in MTasks : tasks[t].pc # "exited"

\* ------------------------------------------------- calls and their return
StartCall(fn, q, first, strat) ==
    /\ pc' = first /\ entry' = fn /\ sql' = q
    /\ connection' = FALSE /\ error' = NoError /\ result' = NoResult
    /\ trace' = <<>> /\ verdicts' = {} /\ dbChanged' = FALSE
    /\ strategy' = strat
    /\ UNCHANGED <<config, manager, activePool, poolPromise, session, lookup>>

Call_executeReadOnlyQuery ==
    /\ pc = "idle"
    /\ \E q \in SqlTexts :
        StartCall("executeReadOnlyQuery", q, "ro_classify", "none")

\* executeWriteQuery is exported and called directly by the tests
Call_executeWriteQuery ==
    /\ pc = "idle"
    /\ \E q \in DirectTexts :
        StartCall("executeWriteQuery", q, "w_getPool", "write")

\* executeQuery runs the fixed SELECT texts of the resource handlers
Call_executeQuery ==
    /\ pc = "idle"
    /\ \E q \in ResourceTexts :
        StartCall("executeQuery", q, "q_getPool", "plain")

Finish(res) == pc' = "done" /\ result' = res

Return ==
    /\ Running /\ pc = "done"
    /\ pc' = "idle" /\ entry' = "none" /\ sql' = NoSql
    /\ connection' = FALSE /\ error' = NoError /\ result' = NoResult
    /\ trace' = <<>> /\ verdicts' = {} /\ dbChanged' = FALSE
    /\ strategy' = "none" /\ activePool' = NoPool
    /\ UNCHANGED <<config, manager, poolPromise, session, lookup>>

\* ------------------------------------------ executeReadOnlyQuery: checks
\* mutant: the DDL check is missing
DeniedCategory_withoutDDL(q) ==
    LET schema == extractSchemaFromQuery(q)
    IN  IF isInsertOperation(q) /\ ~Truthy(isInsertAllowedForSchema(schema))
        THEN "INSERT"
        ELSE IF isUpdateOperation(q) /\ ~Truthy(isUpdateAllowedForSchema(schema))
        THEN "UPDATE"
        ELSE IF isDeleteOperation(q) /\ ~Truthy(isDeleteAllowedForSchema(schema))
        THEN "DELETE"
        ELSE "none"

\* mutant: one allowed category authorizes the whole input
DeniedCategory_unlessOneAllowed(q) ==
    LET schema == extractSchemaFromQuery(q)
    IN  IF \/ isInsertOperation(q) /\ Truthy(isInsertAllowedForSchema(schema))
           \/ isUpdateOperation(q) /\ Truthy(isUpdateAllowedForSchema(schema))
           \/ isDeleteOperation(q) /\ Truthy(isDeleteAllowedForSchema(schema))
           \/ isDDLOperation(q) /\ Truthy(isDDLAllowedForSchema(schema))
        THEN "none"
        ELSE IF isInsertOperation(q) THEN "INSERT"
        ELSE IF isUpdateOperation(q) THEN "UPDATE"
        ELSE IF isDeleteOperation(q) THEN "DELETE"
        ELSE IF isDDLOperation(q) THEN "DDL"
        ELSE "none"

\* the category of the first failing permission check, in the code's order
DeniedCategory(q) ==
    LET schema == extractSchemaFromQuery(q)
    IN  IF isInsertOperation(q) /\ ~Truthy(isInsertAllowedForSchema(schema))
        THEN "INSERT"
        ELSE IF isUpdateOperation(q) /\ ~Truthy(isUpdateAllowedForSchema(schema))
        THEN "UPDATE"
        ELSE IF isDeleteOperation(q) /\ ~Truthy(isDeleteAllowedForSchema(schema))
        THEN "DELETE"
        ELSE IF isDDLOperation(q) /\ ~Truthy(isDDLAllowedForSchema(schema))
        THEN "DDL"
        ELSE "none"

\* "For write operations that are allowed, use executeWriteQuery"
IsAllowedWrite(q) ==
    LET schema == extractSchemaFromQuery(q)
    IN  \/ isInsertOperation(q) /\ Truthy(isInsertAllowedForSchema(schema))
        \/ isUpdateOperation(q) /\ Truthy(isUpdateAllowedForSchema(schema))
        \/ isDeleteOperation(q) /\ Truthy(isDeleteAllowedForSchema(schema))
        \/ isDDLOperation(q) /\ Truthy(isDDLAllowedForSchema(schema))

\* the categories for which a permission function answered "allowed"
AllowVerdicts(q) ==
    LET schema == extractSchemaFromQuery(q)
    IN  {c \in Categories :
            \/ c = "insert" /\ isInsertOperation(q)
                            /\ Truthy(isInsertAllowedForSchema(schema))
            \/ c = "update" /\ isUpdateOperation(q)
                            /\ Truthy(isUpdateAllowedForSchema(schema))
            \/ c = "delete" /\ isDeleteOperation(q)
                            /\ Truthy(isDeleteAllowedForSchema(schema))
            \/ c = "ddl"    /\ isDDLOperation(q)
                            /\ Truthy(isDDLAllowedForSchema(schema))}

SchemaOrDefault(q) ==
    IF extractSchemaFromQuery(q) = NoSchema THEN "default"
    ELSE extractSchemaFromQuery(q)

\* mutant: the parse failure is returned as an error envelope
ReadOnly_ParseError_returnsEnvelope ==
    /\ pc = "ro_classify"
    /\ ~sql.parses
    /\ error' = "Parsing failed"
    /\ Finish(Envelope(TRUE, Text("Parsing failed", "none", "none",
                                  "Parsing failed")))
    /\ trace' = trace \o Finally(connection)
    /\ UNCHANGED <<config, manager, activePool, poolPromise, session, entry, sql, connection,
                   verdicts, strategy, dbChanged, lookup>>

\* getQueryTypes throws; the outer catch finds no connection and rethrows
ReadOnly_ParseError ==
    /\ pc = "ro_classify"
    /\ ~sql.parses
    /\ error' = "Parsing failed"
    /\ Finish(Thrown("Parsing failed"))
    /\ trace' = trace \o Finally(connection)
    /\ UNCHANGED <<config, manager, activePool, poolPromise, session, entry, sql, connection,
                   verdicts, strategy, dbChanged, lookup>>

ReadOnly_Denied ==
    /\ pc = "ro_classify"
    /\ sql.parses
    /\ DeniedCategory(sql) # "none"
    /\ Finish(Envelope(TRUE, Text("operations are not allowed for schema",
                                  DeniedCategory(sql), SchemaOrDefault(sql),
                                  NoError)))
    /\ trace' = trace \o Finally(connection)
    /\ UNCHANGED <<config, manager, activePool, poolPromise, session, entry, sql, connection,
                   error, verdicts, strategy, dbChanged, lookup>>

\* return executeWriteQuery(sql)
ReadOnly_Delegate ==
    /\ pc = "ro_classify"
    /\ sql.parses
    /\ DeniedCategory(sql) = "none"
    /\ IsAllowedWrite(sql)
    /\ pc' = "w_getPool"
    /\ verdicts' = AllowVerdicts(sql)
    /\ strategy' = "write"
    /\ trace' = trace \o Finally(connection)
    /\ UNCHANGED <<config, manager, activePool, poolPromise, session, entry, sql, connection,
                   error, result, dbChanged, lookup>>

ReadOnly_Proceed ==
    /\ pc = "ro_classify"
    /\ sql.parses
    /\ DeniedCategory(sql) = "none"
    /\ ~IsAllowedWrite(sql)
    /\ pc' = "ro_getPool"
    /\ verdicts' = AllowVerdicts(sql)
    /\ strategy' = "read-only"
    /\ UNCHANGED <<config, manager, activePool, poolPromise, session, entry, sql, connection,
                   error, result, trace, dbChanged, lookup>>

\* ------------------------------------ executeReadOnlyQuery: transaction
ReadOnly_GetPool ==
    /\ pc = "ro_getPool"
    /\ \E created \in BOOLEAN :
        /\ AwaitGetPool(created)
        /\ IF getPool(created) = "resolved"
           THEN pc' = "ro_getConnection" /\ UNCHANGED <<error, result>>
           ELSE error' = "createPool failed"
                /\ Finish(Thrown("createPool failed"))
    /\ UNCHANGED <<config, manager, activePool, session, entry, sql, connection, verdicts, strategy,
                   dbChanged, lookup>>

ReadOnly_GetConnection ==
    /\ pc = "ro_getConnection"
    /\ \E ok \in BOOLEAN :
        /\ trace' = Append(trace, Op("getConnection", ok))
        /\ IF ok
           THEN pc' = "ro_setReadOnly" /\ connection' = TRUE
                /\ UNCHANGED <<error, result>>
           ELSE error' = "getConnection failed" /\ connection' = FALSE
                /\ Finish(Thrown("getConnection failed"))
    /\ UNCHANGED <<config, manager, activePool, poolPromise, session, entry, sql, verdicts, strategy,
                   dbChanged, lookup>>

ReadOnly_SetReadOnly ==
    /\ pc = "ro_setReadOnly"
    /\ \E ok \in BOOLEAN :
        /\ Driver("SET SESSION TRANSACTION READ ONLY", ok, <<>>)
        /\ IF ok THEN pc' = "ro_begin" /\ UNCHANGED error
           ELSE pc' = "ro_catch_rollback" /\ error' = "SET READ ONLY failed"
    /\ UNCHANGED <<config, manager, activePool, poolPromise, entry, sql, connection, result,
                   verdicts, strategy, lookup>>

ReadOnly_Begin ==
    /\ pc = "ro_begin"
    /\ \E ok \in BOOLEAN :
        /\ Driver("beginTransaction", ok, <<>>)
        /\ IF ok THEN pc' = "ro_query" /\ UNCHANGED error
           ELSE pc' = "ro_catch_rollback" /\ error' = "beginTransaction failed"
    /\ UNCHANGED <<config, manager, activePool, poolPromise, entry, sql, connection, result,
                   verdicts, strategy, lookup>>

ReadOnly_Query ==
    /\ pc = "ro_query"
    /\ \E ok \in BOOLEAN :
        /\ Driver("query", ok, <<>>)
        /\ IF ok THEN pc' = "ro_rollback" /\ UNCHANGED error
           ELSE pc' = "ro_inner_catch" /\ error' = "statement failed"
    /\ UNCHANGED <<config, manager, activePool, poolPromise, entry, sql, connection, result,
                   verdicts, strategy, lookup>>

\* mutant: the read-only transaction is committed
ReadOnly_Rollback_commits ==
    /\ pc = "ro_rollback"
    /\ \E ok \in BOOLEAN :
        /\ Driver("commit", ok, <<>>)
        /\ IF ok THEN pc' = "ro_setReadWrite" /\ UNCHANGED error
           ELSE pc' = "ro_inner_catch" /\ error' = "rollback failed"
    /\ UNCHANGED <<config, manager, activePool, poolPromise, entry, sql, connection, result,
                   verdicts, strategy, lookup>>

ReadOnly_Rollback ==
    /\ pc = "ro_rollback"
    /\ \E ok \in BOOLEAN :
        /\ Driver("rollback", ok, <<>>)
        /\ IF ok THEN pc' = "ro_setReadWrite" /\ UNCHANGED error
           ELSE pc' = "ro_inner_catch" /\ error' = "rollback failed"
    /\ UNCHANGED <<config, manager, activePool, poolPromise, entry, sql, connection, result,
                   verdicts, strategy, lookup>>

\* mutant: the connection is released before the session is reset
ReadOnly_SetReadWrite_afterRelease ==
    /\ pc = "ro_setReadWrite"
    /\ \E ok \in BOOLEAN :
        /\ ok => CanSucceed("SET SESSION TRANSACTION READ WRITE", session, sql)
        /\ trace' = (trace \o Finally(connection))
                        \o <<Op("SET SESSION TRANSACTION READ WRITE", ok)>>
        /\ session' = Effect("SET SESSION TRANSACTION READ WRITE", ok,
                             session, sql)
        /\ UNCHANGED dbChanged
        /\ IF ok
           THEN Finish(Envelope(FALSE, Text("rows", "none",
                                            SchemaOrDefault(sql), NoError)))
                /\ UNCHANGED error
           ELSE pc' = "ro_inner_catch" /\ error' = "SET READ WRITE failed"
                /\ UNCHANGED result
    /\ UNCHANGED <<config, manager, activePool, poolPromise, entry, sql, connection, verdicts, strategy,
                   lookup>>

ReadOnly_SetReadWrite ==
    /\ pc = "ro_setReadWrite"
    /\ \E ok \in BOOLEAN :
        /\ Driver("SET SESSION TRANSACTION READ WRITE", ok,
                  IF ok THEN Finally(connection) ELSE <<>>)
        /\ IF ok
           THEN Finish(Envelope(FALSE, Text("rows", "none",
                                            SchemaOrDefault(sql), NoError)))
                /\ UNCHANGED error
           ELSE pc' = "ro_inner_catch" /\ error' = "SET READ WRITE failed"
                /\ UNCHANGED result
    /\ UNCHANGED <<config, manager, activePool, poolPromise, entry, sql, connection, verdicts, strategy,
                   lookup>>

\* catch (error) { await connection.rollback(); throw error }
ReadOnly_InnerCatch ==
    /\ pc = "ro_inner_catch"
    /\ \E ok \in BOOLEAN :
        /\ Driver("rollback", ok, <<>>)
        /\ error' = IF ok THEN error ELSE "rollback in catch failed"
    /\ pc' = "ro_catch_rollback"
    /\ UNCHANGED <<config, manager, activePool, poolPromise, entry, sql, connection, result,
                   verdicts, strategy, lookup>>

\* outer catch: try { rollback; SET READ WRITE } catch { ignore }; throw error
ReadOnly_CatchRollback ==
    /\ pc = "ro_catch_rollback"
    /\ \E ok \in BOOLEAN :
        /\ Driver("rollback", ok, IF ok THEN <<>> ELSE Finally(connection))
        /\ IF ok THEN pc' = "ro_catch_setReadWrite" /\ UNCHANGED result
           ELSE Finish(Thrown(error))
    /\ UNCHANGED <<config, manager, activePool, poolPromise, entry, sql, connection, error,
                   verdicts, strategy, lookup>>

ReadOnly_CatchSetReadWrite ==
    /\ pc = "ro_catch_setReadWrite"
    /\ \E ok \in BOOLEAN :
        Driver("SET SESSION TRANSACTION READ WRITE", ok, Finally(connection))
    /\ Finish(Thrown(error))
    /\ UNCHANGED <<config, manager, activePool, poolPromise, entry, sql, connection, error,
                   verdicts, strategy, lookup>>

\* ------------------------------------------------------ executeWriteQuery
ConnectionError(cause) ==
    Envelope(TRUE, Text("Database connection error", "none", "none", cause))

WriteError(cause) ==
    Envelope(TRUE, Text("Error executing write operation", "none", "none",
                        cause))

\* the response text of a committed write, by the if-chain of the code
responseText(q) ==
    IF isInsertOperation(q) THEN "Insert successful"
    ELSE IF isUpdateOperation(q) THEN "Update successful"
    ELSE IF isDeleteOperation(q) THEN "Delete successful"
    ELSE IF isDDLOperation(q) THEN "DDL operation successful"
    ELSE "JSON"

Write_GetPool ==
    /\ pc = "w_getPool"
    /\ \E created \in BOOLEAN :
        /\ AwaitGetPool(created)
        /\ IF getPool(created) = "resolved"
           THEN pc' = "w_getConnection" /\ UNCHANGED <<error, result>>
           ELSE error' = "createPool failed"
                /\ Finish(ConnectionError("createPool failed"))
    /\ UNCHANGED <<config, manager, activePool, session, entry, sql, connection, verdicts, strategy,
                   dbChanged, lookup>>

Write_GetConnection ==
    /\ pc = "w_getConnection"
    /\ \E ok \in BOOLEAN :
        /\ trace' = Append(trace, Op("getConnection", ok))
        /\ IF ok
           THEN pc' = "w_begin" /\ connection' = TRUE
                /\ UNCHANGED <<error, result>>
           ELSE error' = "getConnection failed" /\ connection' = FALSE
                /\ Finish(ConnectionError("getConnection failed"))
    /\ UNCHANGED <<config, manager, activePool, poolPromise, session, entry, sql, verdicts, strategy,
                   dbChanged, lookup>>

\* mutant: a failing beginTransaction is rethrown
Write_Begin_throws ==
    /\ pc = "w_begin"
    /\ \E ok \in BOOLEAN :
        /\ Driver("beginTransaction", ok,
                  IF ok THEN <<>> ELSE Finally(connection))
        /\ IF ok THEN pc' = "w_query" /\ UNCHANGED <<error, result>>
           ELSE error' = "beginTransaction failed"
                /\ Finish(Thrown("beginTransaction failed"))
    /\ UNCHANGED <<config, manager, activePool, poolPromise, entry, sql, connection, verdicts,
                   strategy, lookup>>

Write_Begin ==
    /\ pc = "w_begin"
    /\ \E ok \in BOOLEAN :
        /\ Driver("beginTransaction", ok,
                  IF ok THEN <<>> ELSE Finally(connection))
        /\ IF ok THEN pc' = "w_query" /\ UNCHANGED <<error, result>>
           ELSE error' = "beginTransaction failed"
                /\ Finish(ConnectionError("beginTransaction failed"))
    /\ UNCHANGED <<config, manager, activePool, poolPromise, entry, sql, connection, verdicts, strategy,
                   lookup>>

Write_Query ==
    /\ pc = "w_query"
    /\ \E ok \in BOOLEAN :
        /\ Driver("query", ok, <<>>)
        /\ IF ok THEN pc' = "w_commit" /\ UNCHANGED error
           ELSE pc' = "w_catch" /\ error' = "statement failed"
    /\ UNCHANGED <<config, manager, activePool, poolPromise, entry, sql, connection, result,
                   verdicts, strategy, lookup>>

Write_Commit ==
    /\ pc = "w_commit"
    /\ \E ok \in BOOLEAN :
        /\ Driver("commit", ok, <<>>)
        /\ IF ok THEN pc' = "w_format" /\ UNCHANGED error
           ELSE pc' = "w_catch" /\ error' = "commit failed"
    /\ UNCHANGED <<config, manager, activePool, poolPromise, entry, sql, connection, result,
                   verdicts, strategy, lookup>>

\* after the commit: await getQueryTypes(sql), then the response text
Write_Format ==
    /\ pc = "w_format"
    /\ IF sql.parses
       THEN /\ Finish(Envelope(FALSE, Text(responseText(sql), "none",
                                           SchemaOrDefault(sql), NoError)))
            /\ trace' = trace \o Finally(connection)
            /\ UNCHANGED error
       ELSE /\ pc' = "w_catch" /\ error' = "Parsing failed"
            /\ UNCHANGED <<result, trace>>
    /\ UNCHANGED <<config, manager, activePool, poolPromise, session, entry, sql, connection,
                   verdicts, strategy, dbChanged, lookup>>

\* mutant: the catch block returns the envelope without rolling back
Write_Catch_withoutRollback ==
    /\ pc = "w_catch"
    /\ Finish(WriteError(error))
    /\ trace' = trace \o Finally(connection)
    /\ UNCHANGED <<config, manager, activePool, poolPromise, session, entry, sql, connection,
                   error, verdicts, strategy, dbChanged, lookup>>

\* mutant: after the rollback the statement is tried a second time
Write_Catch_retries ==
    /\ pc = "w_catch"
    /\ \E ok \in BOOLEAN, again \in {Len(SelectSeq(trace, LAMBDA o : o.op = "query")) = 1} :
        /\ Driver("rollback", ok,
                  IF ok /\ again THEN <<>> ELSE Finally(connection))
        /\ IF ok /\ again THEN pc' = "w_query" /\ UNCHANGED <<error, result>>
           ELSE IF ok THEN Finish(WriteError(error)) /\ UNCHANGED error
           ELSE error' = "rollback in catch failed"
                /\ Finish(ConnectionError("rollback in catch failed"))
    /\ UNCHANGED <<config, manager, activePool, poolPromise, entry, sql, connection, verdicts, strategy,
                   lookup>>

\* catch (error) { await connection.rollback(); return error envelope }
\* a failing rollback lands in the outer catch
Write_Catch ==
    /\ pc = "w_catch"
    /\ \E ok \in BOOLEAN :
        /\ Driver("rollback", ok, Finally(connection))
        /\ IF ok THEN Finish(WriteError(error)) /\ UNCHANGED error
           ELSE error' = "rollback in catch failed"
                /\ Finish(ConnectionError("rollback in catch failed"))
    /\ UNCHANGED <<config, manager, activePool, poolPromise, entry, sql, connection, verdicts, strategy,
                   lookup>>

\* ----------------------------------------------------------- executeQuery
Query_GetPool ==
    /\ pc = "q_getPool"
    /\ \E created \in BOOLEAN :
        /\ AwaitGetPool(created)
        /\ IF getPool(created) = "resolved"
           THEN pc' = "q_getConnection" /\ UNCHANGED <<error, result>>
           ELSE error' = "createPool failed"
                /\ Finish(Thrown("createPool failed"))
    /\ UNCHANGED <<config, manager, activePool, session, entry, sql, connection, verdicts, strategy,
                   dbChanged, lookup>>

Query_GetConnection ==
    /\ pc = "q_getConnection"
    /\ \E ok \in BOOLEAN :
        /\ trace' = Append(trace, Op("getConnection", ok))
        /\ IF ok
           THEN pc' = "q_query" /\ connection' = TRUE
                /\ UNCHANGED <<error, result>>
           ELSE error' = "getConnection failed" /\ connection' = FALSE
                /\ Finish(Thrown("getConnection failed"))
    /\ UNCHANGED <<config, manager, activePool, poolPromise, session, entry, sql, verdicts, strategy,
                   dbChanged, lookup>>

Query_Query ==
    /\ pc = "q_query"
    /\ \E ok \in BOOLEAN :
        /\ Driver("query", ok, Finally(connection))
        /\ IF ok THEN Finish(Rows) /\ UNCHANGED error
           ELSE error' = "statement failed"
                /\ Finish(Thrown("statement failed"))
    /\ UNCHANGED <<config, manager, activePool, poolPromise, entry, sql, connection, verdicts, strategy,
                   lookup>>

\* ------------------------------------------------------- specification
\* the permission strings of tests/integration/schema-permissions
PermissionsEnv(v1, v2) ==
    <<[schema |-> "test_schema_1", value |-> v1],
      [schema |-> "test_schema_2", value |-> v2]>>


IdleTask ==
    [pc |-> "idle", connectionId |-> NoId, pool |-> NoPool, cursor |-> 0,
     held |-> FALSE, failed |-> FALSE, result |-> "none"]

\* `clients`: the tasks on which a tool call or signal can arrive
InitManager(loaded, clients) ==
    /\ configs = loaded
    /\ connections = <<>>
    /\ activeConnectionId = NoId
    /\ pools = <<>>
    /\ tasks = [t \in MTasks |->
                    IF t \in clients THEN IdleTask
                    ELSE [IdleTask EXCEPT !.pc = "off"]]

NoLookup ==
    [category |-> "none", schema |-> NoSchema, verdict |-> JSBoolean(FALSE)]

DefaultSchemas == {NoSchema}

\* the four ALLOW_*_OPERATION flags: all unset (the default) or all 'true'
GlobalDefaults == BOOLEAN

InitCall ==
    /\ poolPromise = "unset"
    /\ session = FreshSession
    /\ pc = "idle" /\ entry = "none" /\ sql = NoSql
    /\ connection = FALSE /\ error = NoError /\ result = NoResult
    /\ trace = <<>> /\ verdicts = {} /\ dbChanged = FALSE
    /\ strategy = "none"
    /\ lookup = NoLookup
    /\ activePool = NoPool

Init ==
    /\ \E allow \in GlobalDefaults :
        /\ ALLOW_INSERT_OPERATION = allow
        /\ ALLOW_UPDATE_OPERATION = allow
        /\ ALLOW_DELETE_OPERATION = allow
        /\ ALLOW_DDL_OPERATION = allow
    /\ SCHEMA_INSERT_PERMISSIONS =
           parseSchemaPermissions(PermissionsEnv("true", "false"))
    /\ SCHEMA_UPDATE_PERMISSIONS =
           parseSchemaPermissions(PermissionsEnv("false", "true"))
    /\ SCHEMA_DELETE_PERMISSIONS =
           parseSchemaPermissions(PermissionsEnv("true", "false"))
    /\ SCHEMA_DDL_PERMISSIONS =
           parseSchemaPermissions(PermissionsEnv("true", "false"))
    /\ MYSQL_DB \in DefaultSchemas
    /\ InitCall
    /\ InitManager({}, {})

Next ==
    \/ Call_executeReadOnlyQuery \/ Call_executeWriteQuery
    \/ Call_executeQuery \/ Return
    \/ ReadOnly_ParseError \/ ReadOnly_Denied \/ ReadOnly_Delegate
    \/ ReadOnly_Proceed
    \/ ReadOnly_GetPool \/ ReadOnly_GetConnection \/ ReadOnly_SetReadOnly
    \/ ReadOnly_Begin \/ ReadOnly_Query \/ ReadOnly_Rollback
    \/ ReadOnly_SetReadWrite \/ ReadOnly_InnerCatch
    \/ ReadOnly_CatchRollback \/ ReadOnly_CatchSetReadWrite
    \/ Write_GetPool \/ Write_GetConnection \/ Write_Begin \/ Write_Query
    \/ Write_Commit \/ Write_Format \/ Write_Catch
    \/ Query_GetPool \/ Query_GetConnection \/ Query_Query

Spec == Init /\ [][Next]_vars

\* ------------------------------------------- permission functions alone
\* the SCHEMA_*_PERMISSIONS strings: up to MaxPairs schema:value pairs
PermissionPairs ==
    {[schema |-> "test_schema_1", value |-> v] : v \in {"true", "false"}}

PermissionStrings == UNION {[1..n -> PermissionPairs] : n \in 0..MaxPairs}

\* the schema argument: null, a schema with or without an entry, and a name
\* that is a member of Object.prototype
LookupSchemas == {NoSchema} \cup SchemaNames \cup ObjectPrototypeKeys

InitPerm ==
    /\ ALLOW_INSERT_OPERATION \in BOOLEAN
    /\ ALLOW_UPDATE_OPERATION \in BOOLEAN
    /\ ALLOW_DELETE_OPERATION \in BOOLEAN
    /\ ALLOW_DDL_OPERATION \in BOOLEAN
    /\ \E ins, upd, del, ddl \in PermissionStrings :
        /\ SCHEMA_INSERT_PERMISSIONS = parseSchemaPermissions(ins)
        /\ SCHEMA_UPDATE_PERMISSIONS = parseSchemaPermissions(upd)
        /\ SCHEMA_DELETE_PERMISSIONS = parseSchemaPermissions(del)
        /\ SCHEMA_DDL_PERMISSIONS = parseSchemaPermissions(ddl)
    /\ MYSQL_DB = NoSchema
    /\ InitCall
    /\ InitManager({}, {})

Looked(category, schema, verdict) ==
    /\ lookup' = [category |-> category, schema |-> schema, verdict |-> verdict]
    /\ UNCHANGED <<config, manager, activePool, poolPromise, session, call, hist>>

Apply_isInsertAllowedForSchema ==
    /\ pc = "idle"
    /\ \E schema \in LookupSchemas :
        Looked("insert", schema, isInsertAllowedForSchema(schema))

Apply_isUpdateAllowedForSchema ==
    /\ pc = "idle"
    /\ \E schema \in LookupSchemas :
        Looked("update", schema, isUpdateAllowedForSchema(schema))

Apply_isDeleteAllowedForSchema ==
    /\ pc = "idle"
    /\ \E schema \in LookupSchemas :
        Looked("delete", schema, isDeleteAllowedForSchema(schema))

Apply_isDDLAllowedForSchema ==
    /\ pc = "idle"
    /\ \E schema \in LookupSchemas :
        Looked("ddl", schema, isDDLAllowedForSchema(schema))

NextPerm ==
    \/ Apply_isInsertAllowedForSchema \/ Apply_isUpdateAllowedForSchema
    \/ Apply_isDeleteAllowedForSchema \/ Apply_isDDLAllowedForSchema

SpecPerm == InitPerm /\ [][NextPerm]_vars

\* ===================================================================
\* Multi-connection server: ConnectionManager and its mysql_query
\* ===================================================================
\* ids of ~/.mysql-mcp-connections.json, and one that is not configured
ConfiguredIds == {"db1", "db2"}
ConnectionIds == ConfiguredIds \cup {"unknown"}

\* SQL texts of mysql_query: this server looks at the statement types only;
\* one statement of each type, and a text the parser rejects
McTexts == {q \in DirectTexts : q.dbTableMatch = NoSchema}

\* ---------------------------------------------------- Map<string, Pool>
MapIndex(id) ==
    IF \E i \in DOMAIN connections : connections[i].id = id
    THEN CHOOSE i \in DOMAIN connections : connections[i].id = id
    ELSE 0

MapHas(id) == MapIndex(id) # 0

MapGet(id) == IF MapHas(id) THEN connections[MapIndex(id)].pool ELSE NoPool

MapSet(id, pool) ==
    IF MapHas(id)
    THEN [connections EXCEPT ![MapIndex(id)].pool = pool]
    ELSE Append(connections, [id |-> id, pool |-> pool])

\* entries without the one of `id`
MapDelete(id) ==
    IF MapHas(id)
    THEN [i \in 1..(Len(connections) - 1) |->
            IF i < MapIndex(id) THEN connections[i] ELSE connections[i + 1]]
    ELSE connections

\* the live iterators of closeAllConnections after the entry of `id` went:
\* the entries behind it move up by one
IteratorsAfterDelete(ts, id) ==
    [t \in MTasks |->
        IF MapHas(id) /\ ts[t].pc = "ca_end" /\ ts[t].cursor >= MapIndex(id)
        THEN [ts[t] EXCEPT !.cursor = @ - 1]
        ELSE ts[t]]

\* ... and after connections.clear(): later entries are still visited
IteratorsAfterClear(ts) ==
    [t \in MTasks |->
        IF ts[t].pc = "ca_end" THEN [ts[t] EXCEPT !.cursor = 0] ELSE ts[t]]

\* pool.end() was called on pool p
Ended(p) == [pools EXCEPT ![p] = "ended"]

Done(task, res) == [task EXCEPT !.pc = "done", !.result = res]

\* ------------------------------------------------------ connectToDatabase
Connect_Start(t) ==
    /\ Running /\ tasks[t].pc = "idle"
    /\ \E id \in ConnectionIds, created \in BOOLEAN :
        LET task == [tasks[t] EXCEPT !.connectionId = id] IN
        IF id \notin configs
        THEN /\ tasks' = [tasks EXCEPT ![t] = Done(task, "configuration not found")]
             /\ UNCHANGED <<activeConnectionId, pools>>
        ELSE IF MapHas(id)
        THEN /\ activeConnectionId' = id
             /\ tasks' = [tasks EXCEPT ![t] = Done(task, "switched")]
             /\ UNCHANGED pools
        ELSE IF ~created
        THEN /\ tasks' = [tasks EXCEPT ![t] = Done(task, "failed to connect")]
             /\ UNCHANGED <<activeConnectionId, pools>>
        ELSE /\ Len(pools) < MaxPools
             /\ pools' = Append(pools, "open")
             /\ tasks' = [tasks EXCEPT ![t] =
                    [task EXCEPT !.pc = "c_getConnection",
                                 !.pool = Len(pools) + 1]]
             /\ UNCHANGED activeConnectionId
    /\ UNCHANGED <<config, poolPromise, session, call, hist, lookup, configs,
                   connections, activePool>>

\* const connection = await pool.getConnection()
Connect_GetConnection(t) ==
    /\ Running /\ tasks[t].pc = "c_getConnection"
    /\ \E ok \in BOOLEAN :
        tasks' = [tasks EXCEPT ![t] =
            IF ok THEN [@ EXCEPT !.pc = "c_ping", !.held = TRUE]
            ELSE Done(@, "failed to connect")]
    /\ UNCHANGED <<config, poolPromise, session, call, hist, lookup, configs,
                   connections, activeConnectionId, pools, activePool>>

\* mutant: the id is made active before the ping is awaited
Connect_Ping_activatesFirst(t) ==
    /\ Running /\ tasks[t].pc = "c_ping"
    /\ activeConnectionId' = tasks[t].connectionId
    /\ \E ok \in BOOLEAN :
        IF ok
        THEN /\ connections' = MapSet(tasks[t].connectionId, tasks[t].pool)
             /\ tasks' = [tasks EXCEPT ![t] =
                    Done([@ EXCEPT !.held = FALSE], "connected")]
        ELSE /\ tasks' = [tasks EXCEPT ![t] = Done(@, "failed to connect")]
             /\ UNCHANGED connections
    /\ UNCHANGED <<config, poolPromise, session, call, hist, lookup, configs,
                   pools, activePool>>

\* await connection.ping(); connection.release(); store; make active
Connect_Ping(t) ==
    /\ Running /\ tasks[t].pc = "c_ping"
    /\ \E ok \in BOOLEAN :
        IF ok
        THEN /\ connections' = MapSet(tasks[t].connectionId, tasks[t].pool)
             /\ activeConnectionId' = tasks[t].connectionId
             /\ tasks' = [tasks EXCEPT ![t] =
                    Done([@ EXCEPT !.held = FALSE], "connected")]
        ELSE /\ tasks' = [tasks EXCEPT ![t] = Done(@, "failed to connect")]
             /\ UNCHANGED <<connections, activeConnectionId>>
    /\ UNCHANGED <<config, poolPromise, session, call, hist, lookup, configs,
                   pools, activePool>>

\* ------------------------------------------------------------- disconnect
Disconnect_Start(t) ==
    /\ Running /\ tasks[t].pc = "idle"
    /\ IF activeConnectionId = NoId
       THEN /\ tasks' = [tasks EXCEPT ![t] = Done(@, "no active connection")]
            /\ UNCHANGED <<activeConnectionId, pools>>
       ELSE IF MapGet(activeConnectionId) # NoPool
       THEN /\ pools' = Ended(MapGet(activeConnectionId))
            /\ tasks' = [tasks EXCEPT ![t] =
                    [@ EXCEPT !.pc = "d_end",
                              !.pool = MapGet(activeConnectionId)]]
            /\ UNCHANGED activeConnectionId
       ELSE /\ activeConnectionId' = NoId
            /\ tasks' = [tasks EXCEPT ![t] = Done(@, "disconnected")]
            /\ UNCHANGED pools
    /\ UNCHANGED <<config, poolPromise, session, call, hist, lookup, configs,
                   connections, activePool>>

\* await pool.end() returns: delete the entry of the id that is active now
\* mutant: the entry is deleted and the id stays active
Disconnect_End_keepsActive(t) ==
    /\ Running /\ tasks[t].pc = "d_end"
    /\ \E ok \in BOOLEAN :
        IF ok
        THEN /\ connections' = MapDelete(activeConnectionId)
             /\ tasks' = [IteratorsAfterDelete(tasks, activeConnectionId)
                            EXCEPT ![t] = Done(@, "disconnected")]
        ELSE /\ tasks' = [tasks EXCEPT ![t] = Done(@, "failed to disconnect")]
             /\ UNCHANGED connections
    /\ UNCHANGED <<config, poolPromise, session, call, hist, lookup, configs,
                   activeConnectionId, pools, activePool>>

Disconnect_End(t) ==
    /\ Running /\ tasks[t].pc = "d_end"
    /\ \E ok \in BOOLEAN :
        IF ok
        THEN /\ connections' = MapDelete(activeConnectionId)
             /\ activeConnectionId' = NoId
             /\ tasks' = [IteratorsAfterDelete(tasks, activeConnectionId)
                            EXCEPT ![t] = Done(@, "disconnected")]
        ELSE /\ tasks' = [tasks EXCEPT ![t] = Done(@, "failed to disconnect")]
             /\ UNCHANGED <<connections, activeConnectionId>>
    /\ UNCHANGED <<config, poolPromise, session, call, hist, lookup, configs,
                   pools, activePool>>

\* ---------------------------------------- shutdown: closeAllConnections
\* the for-of loop from the entry behind `cursor`; after the loop clear the
\* map and the active id, and the signal handler exits the process
CloseAllFrom(t, cursor, failed) ==
    IF cursor < Len(connections)
    THEN /\ pools' = Ended(connections[cursor + 1].pool)
         /\ tasks' = [tasks EXCEPT ![t] =
                [@ EXCEPT !.pc = "ca_end", !.cursor = cursor + 1,
                          !.failed = failed]]
         /\ UNCHANGED <<connections, activeConnectionId>>
    ELSE /\ connections' = <<>>
         /\ activeConnectionId' = NoId
         /\ tasks' = [IteratorsAfterClear(tasks) EXCEPT ![t] =
                [@ EXCEPT !.pc = "exited", !.failed = failed,
                          !.result = "closed"]]
         /\ UNCHANGED pools

CloseAll_Start(t) ==
    /\ Running /\ tasks[t].pc = "idle"
    /\ CloseAllFrom(t, 0, FALSE)
    /\ UNCHANGED <<config, poolPromise, session, call, hist, lookup, configs,
                   activePool>>

\* await pool.end() returns or throws (logged), the loop goes on
CloseAll_End(t) ==
    /\ Running /\ tasks[t].pc = "ca_end"
    /\ \E ok \in BOOLEAN :
        CloseAllFrom(t, tasks[t].cursor, tasks[t].failed \/ ~ok)
    /\ UNCHANGED <<config, poolPromise, session, call, hist, lookup, configs,
                   activePool>>

\* --------------------------------------------------- getCurrentConnection
GetCurrentConnection(t) ==
    /\ Running /\ tasks[t].pc = "idle"
    /\ tasks' = [tasks EXCEPT ![t] =
            Done(@, IF activeConnectionId = NoId THEN "no active connection"
                    ELSE IF activeConnectionId \notin configs
                         THEN "active configuration not found"
                    ELSE "current connection")]
    /\ UNCHANGED <<config, poolPromise, session, call, hist, lookup, configs,
                   connections, activeConnectionId, pools, activePool>>

\* the tool call's result went to the client
Manager_Return(t) ==
    /\ Running /\ tasks[t].pc = "done"
    /\ tasks' = [tasks EXCEPT ![t] = IdleTask]
    /\ UNCHANGED <<config, poolPromise, session, call, hist, lookup, configs,
                   connections, activeConnectionId, pools, activePool>>

\* ------------------------------------- executeQuery(connectionManager, sql)
\* mutant: without an active id the first pool of the map is used
getActivePool_firstPool ==
    IF activeConnectionId # NoId THEN MapGet(activeConnectionId)
    ELSE IF connections # <<>> THEN connections[1].pool
    ELSE NoPool

getActivePool ==
    IF activeConnectionId = NoId THEN NoPool ELSE MapGet(activeConnectionId)

ExecutingError(cause) ==
    [kind |-> "thrown", error |-> "Error executing query", cause |-> cause]

\* { content: [{ type: 'text', text }] }: this server sets no isError
Content(text) == [kind |-> "envelope", text |-> text]

isWriteOperation(q) ==
    isInsertOperation(q) \/ isUpdateOperation(q) \/ isDeleteOperation(q)
        \/ isDDLOperation(q)

Call_mysql_query ==
    /\ Running /\ pc = "idle"
    /\ \E q \in McTexts :
        /\ pc' = "mc_activePool" /\ entry' = "mysql_query" /\ sql' = q
    /\ activePool' = getActivePool
    /\ connection' = FALSE /\ error' = NoError /\ result' = NoResult
    /\ trace' = <<>> /\ verdicts' = {} /\ dbChanged' = FALSE
    /\ strategy' = "none"
    /\ UNCHANGED <<config, manager, poolPromise, session, lookup>>

MultiQuery_NoActivePool ==
    /\ Running /\ pc = "mc_activePool" /\ activePool = NoPool
    /\ Finish([kind |-> "thrown", error |-> "No active database connection"])
    /\ UNCHANGED <<config, manager, activePool, poolPromise, session, entry,
                   sql, connection, error, hist, lookup>>

\* await getQueryTypes(sql); the kind flags; activePool.getConnection()
MultiQuery_Classify ==
    /\ Running /\ pc = "mc_activePool" /\ activePool # NoPool
    /\ IF sql.parses
       THEN /\ pc' = "mc_getConnection"
            /\ strategy' = IF isWriteOperation(sql) THEN "write" ELSE "read-only"
            /\ UNCHANGED <<error, result>>
       ELSE /\ error' = "Parsing failed"
            /\ Finish(ExecutingError("Parsing failed"))
            /\ UNCHANGED strategy
    /\ UNCHANGED <<config, manager, activePool, poolPromise, session, entry,
                   sql, connection, trace, verdicts, dbChanged, lookup>>

\* mutant: the connection is taken from the pool that is active at that time
MultiQuery_GetConnection_rereads ==
    /\ Running /\ pc = "mc_getConnection"
    /\ activePool' = getActivePool
    /\ \E ok \in BOOLEAN :
        /\ ok => getActivePool # NoPool /\ pools[getActivePool] = "open"
        /\ trace' = Append(trace, Op("getConnection", ok))
        /\ IF ok
           THEN /\ connection' = TRUE
                /\ session' = FreshSession
                /\ pc' = IF strategy = "write" THEN "mc_w_begin"
                         ELSE "mc_r_setReadOnly"
                /\ UNCHANGED <<error, result>>
           ELSE /\ error' = "getConnection failed" /\ connection' = FALSE
                /\ Finish(ExecutingError("getConnection failed"))
                /\ UNCHANGED session
    /\ UNCHANGED <<config, manager, poolPromise, entry, sql,
                   verdicts, strategy, dbChanged, lookup>>

\* a pool on which end() was called hands out no connection
MultiQuery_GetConnection ==
    /\ Running /\ pc = "mc_getConnection"
    /\ \E ok \in BOOLEAN :
        /\ ok => pools[activePool] = "open"
        /\ trace' = Append(trace, Op("getConnection", ok))
        /\ IF ok
           THEN /\ connection' = TRUE
                /\ session' = FreshSession
                /\ pc' = IF strategy = "write" THEN "mc_w_begin"
                         ELSE "mc_r_setReadOnly"
                /\ UNCHANGED <<error, result>>
           ELSE /\ error' = "getConnection failed" /\ connection' = FALSE
                /\ Finish(ExecutingError("getConnection failed"))
                /\ UNCHANGED session
    /\ UNCHANGED <<config, manager, activePool, poolPromise, entry, sql,
                   verdicts, strategy, dbChanged, lookup>>

\* one awaited driver call of the try block that the outer catch handles
\* directly: on failure the error is wrapped and thrown, finally releases
MultiQuery_Outer(op, next) ==
    /\ \E ok \in BOOLEAN :
        /\ Driver(op, ok, IF ok THEN <<>> ELSE Finally(connection))
        /\ IF ok THEN pc' = next /\ UNCHANGED <<error, result>>
           ELSE error' = op /\ Finish(ExecutingError(op))
    /\ UNCHANGED <<config, manager, activePool, poolPromise, entry, sql,
                   connection, verdicts, strategy, lookup>>

\* one awaited driver call inside an inner try: on failure its catch runs
MultiQuery_Inner(op, next, catch) ==
    /\ \E ok \in BOOLEAN :
        /\ Driver(op, ok, <<>>)
        /\ IF ok THEN pc' = next /\ UNCHANGED error
           ELSE pc' = catch /\ error' = op
    /\ UNCHANGED <<config, manager, activePool, poolPromise, entry, sql,
                   connection, result, verdicts, strategy, lookup>>

MultiQuery_Write_Begin ==
    /\ Running /\ pc = "mc_w_begin"
    /\ MultiQuery_Outer("beginTransaction", "mc_w_query")

MultiQuery_Write_Query ==
    /\ Running /\ pc = "mc_w_query"
    /\ MultiQuery_Inner("query", "mc_w_commit", "mc_w_catch")

\* await connection.commit(); return { content } ; finally release
MultiQuery_Write_Commit ==
    /\ Running /\ pc = "mc_w_commit"
    /\ \E ok \in BOOLEAN :
        /\ Driver("commit", ok, IF ok THEN Finally(connection) ELSE <<>>)
        /\ IF ok
           THEN /\ Finish(Content(Text(responseText(sql), "none", "none",
                                       NoError)))
                /\ UNCHANGED error
           ELSE pc' = "mc_w_catch" /\ error' = "commit" /\ UNCHANGED result
    /\ UNCHANGED <<config, manager, activePool, poolPromise, entry, sql,
                   connection, verdicts, strategy, lookup>>

\* catch (error) { await connection.rollback(); throw error }, outer catch
\* wraps what arrives, finally releases
MultiQuery_Write_Catch ==
    /\ Running /\ pc = "mc_w_catch"
    /\ \E ok \in BOOLEAN :
        /\ Driver("rollback", ok, Finally(connection))
        /\ Finish(ExecutingError(IF ok THEN error ELSE "rollback"))
    /\ UNCHANGED <<config, manager, activePool, poolPromise, entry, sql,
                   connection, error, verdicts, strategy, lookup>>

MultiQuery_Read_SetReadOnly ==
    /\ Running /\ pc = "mc_r_setReadOnly"
    /\ MultiQuery_Outer("SET SESSION TRANSACTION READ ONLY", "mc_r_begin")

MultiQuery_Read_Begin ==
    /\ Running /\ pc = "mc_r_begin"
    /\ MultiQuery_Outer("beginTransaction", "mc_r_query")

MultiQuery_Read_Query ==
    /\ Running /\ pc = "mc_r_query"
    /\ MultiQuery_Inner("query", "mc_r_rollback", "mc_r_catch")

MultiQuery_Read_Rollback ==
    /\ Running /\ pc = "mc_r_rollback"
    /\ MultiQuery_Inner("rollback", "mc_r_setReadWrite", "mc_r_catch")

MultiQuery_Read_SetReadWrite ==
    /\ Running /\ pc = "mc_r_setReadWrite"
    /\ \E ok \in BOOLEAN :
        /\ Driver("SET SESSION TRANSACTION READ WRITE", ok,
                  IF ok THEN Finally(connection) ELSE <<>>)
        /\ IF ok
           THEN /\ Finish(Content(Text("JSON", "none", "none", NoError)))
                /\ UNCHANGED error
           ELSE /\ pc' = "mc_r_catch"
                /\ error' = "SET SESSION TRANSACTION READ WRITE"
                /\ UNCHANGED result
    /\ UNCHANGED <<config, manager, activePool, poolPromise, entry, sql,
                   connection, verdicts, strategy, lookup>>

\* catch (error) { await connection.rollback(); ...
MultiQuery_Read_Catch ==
    /\ Running /\ pc = "mc_r_catch"
    /\ \E ok \in BOOLEAN :
        /\ Driver("rollback", ok, IF ok THEN <<>> ELSE Finally(connection))
        /\ IF ok THEN pc' = "mc_r_catch_reset" /\ UNCHANGED result
           ELSE Finish(ExecutingError("rollback"))
    /\ UNCHANGED <<config, manager, activePool, poolPromise, entry, sql,
                   connection, error, verdicts, strategy, lookup>>

\* ... await connection.query('SET SESSION TRANSACTION READ WRITE'); throw error }
MultiQuery_Read_CatchReset ==
    /\ Running /\ pc = "mc_r_catch_reset"
    /\ \E ok \in BOOLEAN :
        /\ Driver("SET SESSION TRANSACTION READ WRITE", ok, Finally(connection))
        /\ Finish(ExecutingError(
                IF ok THEN error ELSE "SET SESSION TRANSACTION READ WRITE"))
    /\ UNCHANGED <<config, manager, activePool, poolPromise, entry, sql,
                   connection, error, verdicts, strategy, lookup>>

\* the multi-connection server reads none of the permission variables
InitMC ==
    /\ ALLOW_INSERT_OPERATION = FALSE /\ ALLOW_UPDATE_OPERATION = FALSE
    /\ ALLOW_DELETE_OPERATION = FALSE /\ ALLOW_DDL_OPERATION = FALSE
    /\ SCHEMA_INSERT_PERMISSIONS = EmptyMap
    /\ SCHEMA_UPDATE_PERMISSIONS = EmptyMap
    /\ SCHEMA_DELETE_PERMISSIONS = EmptyMap
    /\ SCHEMA_DDL_PERMISSIONS = EmptyMap
    /\ MYSQL_DB = NoSchema
    /\ InitCall
    /\ InitManager(ConfiguredIds, {"t1"})

NextMC ==
    \/ \E t \in MTasks : Connect_Start(t)
    \/ \E t \in MTasks : Connect_GetConnection(t)
    \/ \E t \in MTasks : Connect_Ping(t)
    \/ \E t \in MTasks : Disconnect_Start(t)
    \/ \E t \in MTasks : Disconnect_End(t)
    \/ \E t \in MTasks : CloseAll_Start(t)
    \/ \E t \in MTasks : CloseAll_End(t)
    \/ \E t \in MTasks : GetCurrentConnection(t)
    \/ \E t \in MTasks : Manager_Return(t)
    \/ Call_mysql_query \/ Return
    \/ MultiQuery_NoActivePool \/ MultiQuery_Classify
    \/ MultiQuery_GetConnection
    \/ MultiQuery_Write_Begin \/ MultiQuery_Write_Query
    \/ MultiQuery_Write_Commit \/ MultiQuery_Write_Catch
    \/ MultiQuery_Read_SetReadOnly \/ MultiQuery_Read_Begin
    \/ MultiQuery_Read_Query \/ MultiQuery_Read_Rollback
    \/ MultiQuery_Read_SetReadWrite \/ MultiQuery_Read_Catch
    \/ MultiQuery_Read_CatchReset

SpecMC == InitMC /\ [][NextMC]_vars

\* ------------------------------------------- extractSchemaFromQuery alone
\* Statements as the two regular expressions of extractSchemaFromQuery see
\* them: useStmt is the identifier of the statement when it is a USE
\* statement, useMatch the capture of /USE\s+`?([a-zA-Z0-9_]+)`?/i in its
\* text (the expression is not anchored: it also matches inside a string
\* literal or at the end of a longer word), dbTableMatch the capture of
\* /`?([a-zA-Z0-9_]+)`?\.`?[a-zA-Z0-9_]+`?/i.
SchemaStatements ==
    { \* USE reporting
      [type |-> "use", useStmt |-> "reporting", useMatch |-> "reporting",
       dbTableMatch |-> NoSchema],
      \* USE hr
      [type |-> "use", useStmt |-> "hr", useMatch |-> "hr",
       dbTableMatch |-> NoSchema],
      \* SELECT * FROM events
      [type |-> "select", useStmt |-> NoSchema, useMatch |-> NoSchema,
       dbTableMatch |-> NoSchema],
      \* SELECT * FROM orders.items
      [type |-> "select", useStmt |-> NoSchema, useMatch |-> NoSchema,
       dbTableMatch |-> "orders"],
      \* SELECT * FROM orders.items WHERE note = 'use reporting'
      [type |-> "select", useStmt |-> NoSchema, useMatch |-> "reporting",
       dbTableMatch |-> "orders"],
      \* INSERT INTO hr.employees (name) VALUES ('x')
      [type |-> "insert", useStmt |-> NoSchema, useMatch |-> NoSchema,
       dbTableMatch |-> "hr"],
      \* DELETE FROM warehouse w
      [type |-> "delete", useStmt |-> NoSchema, useMatch |-> "w",
       dbTableMatch |-> NoSchema] }

\* String.prototype.match without the g flag: the leftmost match
FirstMatch(captures) ==
    IF \E i \in DOMAIN captures : captures[i] # NoSchema
    THEN captures[CHOOSE i \in DOMAIN captures :
                    /\ captures[i] # NoSchema
                    /\ \A j \in 1..(i - 1) : captures[j] = NoSchema]
    ELSE NoSchema

SchemaText(stmts) ==
    [parses |-> TRUE,
     types |-> [i \in DOMAIN stmts |-> stmts[i].type],
     useStmt |-> FirstMatch([i \in DOMAIN stmts |-> stmts[i].useStmt]),
     useMatch |-> FirstMatch([i \in DOMAIN stmts |-> stmts[i].useMatch]),
     dbTableMatch |->
        FirstMatch([i \in DOMAIN stmts |-> stmts[i].dbTableMatch])]

SchemaTexts ==
    {SchemaText(stmts) :
        stmts \in UNION {[1..n -> SchemaStatements] : n \in 1..MaxStmts}}

\* process.env.MYSQL_DB: unset, or the name of the single database
ConfiguredDefaults == {NoSchema} \cup SchemaNames

InitSchema ==
    /\ ALLOW_INSERT_OPERATION = FALSE
    /\ ALLOW_UPDATE_OPERATION = FALSE
    /\ ALLOW_DELETE_OPERATION = FALSE
    /\ ALLOW_DDL_OPERATION = FALSE
    /\ SCHEMA_INSERT_PERMISSIONS = EmptyMap
    /\ SCHEMA_UPDATE_PERMISSIONS = EmptyMap
    /\ SCHEMA_DELETE_PERMISSIONS = EmptyMap
    /\ SCHEMA_DDL_PERMISSIONS = EmptyMap
    /\ MYSQL_DB \in ConfiguredDefaults
    /\ InitCall
    /\ InitManager({}, {})

Apply_extractSchemaFromQuery ==
    /\ pc = "idle"
    /\ \E q \in SchemaTexts :
        /\ sql' = q
        /\ lookup' = [category |-> "extractSchemaFromQuery",
                      schema |-> extractSchemaFromQuery(q),
                      verdict |-> JSBoolean(FALSE)]
    /\ UNCHANGED <<config, manager, activePool, poolPromise, session, pc,
                   entry, connection, error, result, hist>>

NextSchema == Apply_extractSchemaFromQuery

SpecSchema == InitSchema /\ [][NextSchema]_vars

\* ------------------------------------ pool lifecycle: runServer, shutdown
\* runServer tests the connection before the server is connected; it is
\* called once, when the module is loaded and no promise is stored yet
Call_runServer ==
    /\ pc = "idle" /\ poolPromise = "unset"
    /\ StartCall("runServer", NoSql, "rs_getPool", "startup")

\* safeExit(1) of the catch block: the process is gone
RunServer_Fatal(e) ==
    /\ error' = e
    /\ pc' = "exited"
    /\ UNCHANGED result

RunServer_GetPool ==
    /\ pc = "rs_getPool"
    /\ \E created \in BOOLEAN :
        /\ AwaitGetPool(created)
        /\ IF getPool(created) = "resolved"
           THEN pc' = "rs_getConnection" /\ UNCHANGED <<error, result>>
           ELSE RunServer_Fatal("createPool failed")
    /\ UNCHANGED <<config, manager, activePool, session, entry, sql,
                   connection, verdicts, strategy, dbChanged, lookup>>

\* pool.getConnection(), connection.release(), then the transport
RunServer_GetConnection ==
    /\ pc = "rs_getConnection"
    /\ \E ok \in BOOLEAN :
        IF ok
        THEN /\ trace' = trace \o <<Op("getConnection", TRUE),
                                    Op("release", TRUE)>>
             /\ Finish([kind |-> "started"])
             /\ UNCHANGED error
        ELSE /\ trace' = Append(trace, Op("getConnection", FALSE))
             /\ RunServer_Fatal("getConnection failed")
    /\ UNCHANGED <<config, manager, activePool, poolPromise, session, entry,
                   sql, connection, verdicts, strategy, dbChanged, lookup>>

\* the pool of this server, as a signal handler's task holds it
ThePool == 1

\* shutdown(signal), up to its first await: if (poolPromise)
Shutdown_Start(t) ==
    /\ Running /\ tasks[t].pc = "idle"
    /\ tasks' = [tasks EXCEPT ![t] =
            IF poolPromise = "unset"
            THEN [@ EXCEPT !.pc = "sd_exit", !.result = "nothing to close"]
            ELSE [@ EXCEPT !.pc = "sd_await"]]
    /\ UNCHANGED <<config, poolPromise, session, call, hist, lookup, configs,
                   connections, activeConnectionId, pools, activePool>>

\* const pool = await poolPromise, then pool.end() is invoked; a rejected
\* promise throws, shutdown rethrows and the handler calls safeExit(1)
Shutdown_Await(t) ==
    /\ Running /\ tasks[t].pc = "sd_await"
    /\ tasks' = [tasks EXCEPT ![t] =
            IF poolPromise = "resolved"
            THEN [@ EXCEPT !.pc = "sd_end", !.pool = ThePool]
            ELSE [@ EXCEPT !.pc = "exited", !.failed = TRUE,
                           !.result = "shutdown failed"]]
    /\ UNCHANGED <<config, poolPromise, session, call, hist, lookup, configs,
                   connections, activeConnectionId, pools, activePool>>

\* await pool.end() returns or throws
Shutdown_End(t) ==
    /\ Running /\ tasks[t].pc = "sd_end"
    /\ \E ok \in BOOLEAN :
        tasks' = [tasks EXCEPT ![t] =
            IF ok
            THEN [@ EXCEPT !.pc = "sd_exit", !.result = "pool closed"]
            ELSE [@ EXCEPT !.pc = "exited", !.failed = TRUE,
                           !.result = "shutdown failed"]]
    /\ UNCHANGED <<config, poolPromise, session, call, hist, lookup, configs,
                   connections, activeConnectionId, pools, activePool>>

\* process.exit(0) of the signal handler
Shutdown_Exit(t) ==
    /\ Running /\ tasks[t].pc = "sd_exit"
    /\ tasks' = [tasks EXCEPT ![t].pc = "exited"]
    /\ UNCHANGED <<config, poolPromise, session, call, hist, lookup, configs,
                   connections, activeConnectionId, pools, activePool>>

\* the tool calls together with the startup
NextPool ==
    \/ Next
    \/ Call_runServer \/ RunServer_GetPool \/ RunServer_GetConnection

SpecPool == Init /\ [][NextPool]_vars

\* SIGINT and SIGTERM can each arrive, while resources are being read
InitShutdown ==
    /\ \E allow \in GlobalDefaults :
        /\ ALLOW_INSERT_OPERATION = allow
        /\ ALLOW_UPDATE_OPERATION = allow
        /\ ALLOW_DELETE_OPERATION = allow
        /\ ALLOW_DDL_OPERATION = allow
    /\ SCHEMA_INSERT_PERMISSIONS = EmptyMap
    /\ SCHEMA_UPDATE_PERMISSIONS = EmptyMap
    /\ SCHEMA_DELETE_PERMISSIONS = EmptyMap
    /\ SCHEMA_DDL_PERMISSIONS = EmptyMap
    /\ MYSQL_DB \in DefaultSchemas
    /\ InitCall
    /\ InitManager({}, MTasks)

NextShutdown ==
    \/ Call_runServer \/ RunServer_GetPool \/ RunServer_GetConnection
    \/ Call_executeQuery \/ Query_GetPool \/ Query_GetConnection
    \/ Query_Query \/ Return
    \/ \E t \in MTasks :
        \/ Shutdown_Start(t) \/ Shutdown_Await(t)
        \/ Shutdown_End(t) \/ Shutdown_Exit(t)

SpecShutdown == InitShutdown /\ [][NextShutdown]_vars

\* ------------------------------ connection manager: tool calls in flight
\* connect_to_database, disconnect_database, get_current_connection and the
\* signal handlers on two tasks: a second call can arrive while the first
\* is suspended in an await
InitConcurrent ==
    /\ ALLOW_INSERT_OPERATION = FALSE /\ ALLOW_UPDATE_OPERATION = FALSE
    /\ ALLOW_DELETE_OPERATION = FALSE /\ ALLOW_DDL_OPERATION = FALSE
    /\ SCHEMA_INSERT_PERMISSIONS = EmptyMap
    /\ SCHEMA_UPDATE_PERMISSIONS = EmptyMap
    /\ SCHEMA_DELETE_PERMISSIONS = EmptyMap
    /\ SCHEMA_DDL_PERMISSIONS = EmptyMap
    /\ MYSQL_DB = NoSchema
    /\ InitCall
    /\ InitManager(ConfiguredIds, MTasks)

NextConcurrent ==
    \E t \in MTasks :
        \/ Connect_Start(t) \/ Connect_GetConnection(t) \/ Connect_Ping(t)
        \/ Disconnect_Start(t) \/ Disconnect_End(t)
        \/ CloseAll_Start(t) \/ CloseAll_End(t)
        \/ GetCurrentConnection(t) \/ Manager_Return(t)

SpecConcurrent == InitConcurrent /\ [][NextConcurrent]_vars

\* ------------------------------------- executions in flight on one pool
\* Two tool invocations run executeReadOnlyQuery / executeWriteQuery at the
\* same time; each suspends at every awaited driver call.  A task holds the
\* `connection` variable of its invocation and whether that connection is
\* checked out of the pool.
PoolConnections == 1..MaxConns

NoConnection == 0

IdleExecution ==
    [pc |-> "idle", connection |-> NoConnection, held |-> FALSE]

\* the connections no invocation has checked out: what getConnection can give
FreeConnections ==
    PoolConnections \
        {tasks[u].connection : u \in {v \in DOMAIN tasks : tasks[v].held}}

\* the awaited driver call at each position
ExecOp ==
    [ro_setReadOnly |-> SetReadOnly,
     ro_begin |-> "beginTransaction",
     ro_query |-> "query",
     ro_rollback |-> "rollback",
     ro_setReadWrite |-> SetReadWrite,
     ro_innerCatch |-> "rollback",
     ro_catchRollback |-> "rollback",
     ro_catchSetReadWrite |-> SetReadWrite,
     w_begin |-> "beginTransaction",
     w_query |-> "query",
     w_commit |-> "commit",
     w_catch |-> "rollback"]

\* where control goes when the call returns, and when it throws
ExecThen ==
    [ro_setReadOnly |-> <<"ro_begin", "ro_catchRollback">>,
     ro_begin |-> <<"ro_query", "ro_catchRollback">>,
     ro_query |-> <<"ro_rollback", "ro_innerCatch">>,
     ro_rollback |-> <<"ro_setReadWrite", "ro_innerCatch">>,
     ro_setReadWrite |-> <<"x_finally", "ro_innerCatch">>,
     ro_innerCatch |-> <<"ro_catchRollback", "ro_catchRollback">>,
     ro_catchRollback |-> <<"ro_catchSetReadWrite", "x_finally">>,
     ro_catchSetReadWrite |-> <<"x_finally", "x_finally">>,
     w_begin |-> <<"w_query", "x_finally">>,
     w_query |-> <<"w_commit", "w_catch">>,
     w_commit |-> <<"x_finally", "w_catch">>,
     w_catch |-> <<"x_finally", "x_finally">>]

\* const pool = await getPool(); connection = await pool.getConnection():
\* with every connection checked out the call waits in the queue of the pool;
\* otherwise it resolves with a free connection, or rejects when a new one
\* cannot be opened
Exec_GetConnection(t) ==
    /\ tasks[t].pc = "idle"
    /\ FreeConnections # {}
    /\ \E first \in {"ro_setReadOnly", "w_begin"} :
        \/ \E c \in FreeConnections :
            tasks' = [tasks EXCEPT ![t] =
                [pc |-> first, connection |-> c, held |-> TRUE]]
        \/ tasks' = [tasks EXCEPT ![t].pc = "x_finally"]
    /\ UNCHANGED <<config, poolPromise, session, call, hist, lookup, configs,
                   connections, activeConnectionId, pools, activePool>>

\* one awaited call on the invocation's `connection`
Exec_Driver(t) ==
    /\ tasks[t].pc \in DOMAIN ExecOp
    /\ \E ok \in BOOLEAN :
        tasks' = [tasks EXCEPT ![t].pc =
                    ExecThen[tasks[t].pc][IF ok THEN 1 ELSE 2]]
    /\ UNCHANGED <<config, poolPromise, session, call, hist, lookup, configs,
                   connections, activeConnectionId, pools, activePool>>

\* mutant: the connection is released before the awaited call is made
Exec_Finally_early(t) ==
    /\ tasks[t].pc \in DOMAIN ExecOp \cup {"x_finally"}
    /\ tasks' = [tasks EXCEPT ![t] =
            [@ EXCEPT !.held = FALSE,
                      !.pc = IF @ = "x_finally" THEN "done" ELSE @]]
    /\ UNCHANGED <<config, poolPromise, session, call, hist, lookup, configs,
                   connections, activeConnectionId, pools, activePool>>

\* mutant: finally leaves the connection checked out
Exec_Finally_withoutRelease(t) ==
    /\ tasks[t].pc = "x_finally"
    /\ tasks' = [tasks EXCEPT ![t] = [@ EXCEPT !.pc = "done"]]
    /\ UNCHANGED <<config, poolPromise, session, call, hist, lookup, configs,
                   connections, activeConnectionId, pools, activePool>>

\* finally { if (connection) connection.release() }
Exec_Finally(t) ==
    /\ tasks[t].pc = "x_finally"
    /\ tasks' = [tasks EXCEPT ![t] = [@ EXCEPT !.pc = "done", !.held = FALSE]]
    /\ UNCHANGED <<config, poolPromise, session, call, hist, lookup, configs,
                   connections, activeConnectionId, pools, activePool>>

\* the invocation's result went to the client; its variables are gone
Exec_Return(t) ==
    /\ tasks[t].pc = "done"
    /\ tasks' = [tasks EXCEPT ![t] = IdleExecution]
    /\ UNCHANGED <<config, poolPromise, session, call, hist, lookup, configs,
                   connections, activeConnectionId, pools, activePool>>

InitExec ==
    /\ \E allow \in GlobalDefaults :
        /\ ALLOW_INSERT_OPERATION = allow
        /\ ALLOW_UPDATE_OPERATION = allow
        /\ ALLOW_DELETE_OPERATION = allow
        /\ ALLOW_DDL_OPERATION = allow
    /\ SCHEMA_INSERT_PERMISSIONS = EmptyMap
    /\ SCHEMA_UPDATE_PERMISSIONS = EmptyMap
    /\ SCHEMA_DELETE_PERMISSIONS = EmptyMap
    /\ SCHEMA_DDL_PERMISSIONS = EmptyMap
    /\ MYSQL_DB \in DefaultSchemas
    /\ InitCall
    /\ configs = {} /\ connections = <<>> /\ activeConnectionId = NoId
    /\ pools = <<>>
    /\ tasks = [t \in MTasks |-> IdleExecution]

NextExec ==
    \E t \in MTasks :
        \/ Exec_GetConnection(t) \/ Exec_Driver(t)
        \/ Exec_Finally(t) \/ Exec_Return(t)

SpecExec == InitExec /\ [][NextExec]_vars

\* one invocation more than the pool has connections, each running once
Invocations == 1..(MaxConns + 1)

InitLive ==
    /\ \E allow \in GlobalDefaults :
        /\ ALLOW_INSERT_OPERATION = allow
        /\ ALLOW_UPDATE_OPERATION = allow
        /\ ALLOW_DELETE_OPERATION = allow
        /\ ALLOW_DDL_OPERATION = allow
    /\ SCHEMA_INSERT_PERMISSIONS = EmptyMap
    /\ SCHEMA_UPDATE_PERMISSIONS = EmptyMap
    /\ SCHEMA_DELETE_PERMISSIONS = EmptyMap
    /\ SCHEMA_DDL_PERMISSIONS = EmptyMap
    /\ MYSQL_DB \in DefaultSchemas
    /\ InitCall
    /\ configs = {} /\ connections = <<>> /\ activeConnectionId = NoId
    /\ pools = <<>>
    /\ tasks = [t \in Invocations |-> IdleExecution]

NextLive ==
    \E t \in Invocations :
        \/ Exec_GetConnection(t) \/ Exec_Driver(t) \/ Exec_Finally(t)

\* every awaited driver call settles, and the event loop runs what was
\* waiting for it
SpecLive ==
    /\ InitLive /\ [][NextLive]_vars
    /\ \A t \in Invocations :
        /\ WF_vars(Exec_GetConnection(t))
        /\ WF_vars(Exec_Driver(t))
        /\ WF_vars(Exec_Finally(t))

\* ------------------------------------------------------------ ConfigLoader
\* JSON values of ~/.mysql-mcp-connections.json, with their typeof
JSString(s) == [type |-> "string", value |-> s]
JSNumber(n) == [type |-> "number", value |-> n]
JSNull == [type |-> "null"]
JSObject(fields) == [type |-> "object", fields |-> fields]

\* String.prototype.trim on the strings used here
Trim(s) == IF s = " " THEN "" ELSE s

ValidFields(id) ==
    [id |-> JSString(id), host |-> JSString("localhost"),
     port |-> JSNumber(3306), user |-> JSString("root"),
     password |-> JSString(""), name |-> JSString("app")]

Without(fields, field) == [k \in (DOMAIN fields) \ {field} |-> fields[k]]

\* the entries of a configuration file: well-formed ones for two ids and, for
\* the first id, one entry per way of being malformed
ConfigEntries ==
    {JSObject(ValidFields(id)) : id \in ConfiguredIds}
    \cup {JSNull, JSString("db1")}
    \cup {JSObject(Without(ValidFields("db1"), "name"))}
    \cup {JSObject([ValidFields("db1") EXCEPT !.id = v]) :
            v \in {JSString(""), JSString(" "), JSNumber(1)}}
    \cup {JSObject([ValidFields("db1") EXCEPT !.host = v]) :
            v \in {JSString(" "), JSNull}}
    \cup {JSObject([ValidFields("db1") EXCEPT !.port = v]) :
            v \in {JSNumber(0), JSNumber(-1), JSString("3306")}}
    \cup {JSObject([ValidFields("db1") EXCEPT !.user = JSNull])}
    \cup {JSObject([ValidFields("db1") EXCEPT !.password = JSNumber(1)])}
    \cup {JSObject([ValidFields("db1") EXCEPT !.name = v]) :
            v \in {JSString(""), JSNumber(1)}}

\* what fs and JSON.parse give: no file, text that is not JSON, a value that
\* is not an array, an array of entries
ConfigFiles ==
    {[kind |-> "absent"], [kind |-> "not JSON"],
     [kind |-> "parsed", value |-> JSObject(ValidFields("db1"))]}
    \cup {[kind |-> "parsed", value |-> [type |-> "array", items |-> items]] :
            items \in UNION {[1..n -> ConfigEntries] : n \in 0..MaxConfigs}}

requiredFields == <<"id", "host", "port", "user", "password", "name">>

\* the checks of one entry, in the order of the loop body
EntryError(conn) ==
    IF conn.type # "object" THEN "is not a valid object"
    ELSE IF \E i \in DOMAIN requiredFields :
                requiredFields[i] \notin DOMAIN conn.fields
    THEN "is missing required field"
    ELSE LET c == conn.fields IN
         IF c.id.type # "string" \/ Trim(c.id.value) = "" THEN "has invalid id"
         ELSE IF c.host.type # "string" \/ Trim(c.host.value) = ""
         THEN "has invalid host"
         ELSE IF c.port.type # "number" \/ c.port.value <= 0
         THEN "has invalid port"
         ELSE IF c.user.type # "string" THEN "has invalid user"
         ELSE IF c.password.type # "string" THEN "has invalid password"
         ELSE IF c.name.type # "string" \/ Trim(c.name.value) = ""
         THEN "has invalid database name"
         ELSE NoError

\* mutant: the duplicate check is missing
validateConnections_withoutDuplicateCheck(parsed) ==
    IF parsed.type # "array" THEN "Configuration must be an array"
    ELSE LET items == parsed.items
             bad == {i \in DOMAIN items : EntryError(items[i]) # NoError}
         IN  IF bad # {}
             THEN EntryError(items[CHOOSE i \in bad : \A j \in bad : i <= j])
             ELSE NoError

\* the error validateConnections throws, NoError when it returns
validateConnections(parsed) ==
    IF parsed.type # "array" THEN "Configuration must be an array"
    ELSE LET items == parsed.items
             bad == {i \in DOMAIN items : EntryError(items[i]) # NoError}
             ids == {items[i].fields.id : i \in DOMAIN items}
         IN  IF bad # {}
             THEN EntryError(items[CHOOSE i \in bad : \A j \in bad : i <= j])
             ELSE IF Len(items) # Cardinality(ids)
             THEN "Duplicate connection IDs found in configuration"
             ELSE NoError

\* loadConnections: the array it returns, or the error it throws
loadConnections(file) ==
    IF file.kind = "absent" THEN [thrown |-> NoError, value |-> <<>>]
    ELSE IF file.kind = "not JSON"
    THEN [thrown |-> "Failed to load connection configurations",
          value |-> <<>>]
    ELSE IF validateConnections(file.value) # NoError
    THEN [thrown |-> "Failed to load connection configurations",
          value |-> <<>>]
    ELSE [thrown |-> NoError, value |-> file.value.items]

\* ConnectionManager.getInstance(), first call: new ConnectionManager() and
\* initialize(); `lookup` keeps the file that was read and the outcome
Manager_Initialize ==
    /\ lookup.category = "none"
    /\ \E file \in ConfigFiles :
        LET loaded == loadConnections(file) IN
        /\ lookup' = [category |-> "loadConnections", file |-> file,
                      thrown |-> loaded.thrown]
        /\ configs' = IF loaded.thrown = NoError THEN loaded.value ELSE configs
    /\ UNCHANGED <<config, poolPromise, session, call, hist, connections,
                   activeConnectionId, pools, tasks, activePool>>

\* a later getInstance() finds `instance` set and returns it, whatever became
\* of initialize(); getAvailableConnections: return [...this.configs]
Manager_GetAvailableConnections ==
    /\ lookup.category = "loadConnections"
    /\ pc = "idle"
    /\ pc' = "done"
    /\ result' = [kind |-> "configs", value |-> configs]
    /\ UNCHANGED <<config, manager, poolPromise, session, entry, sql,
                   connection, error, hist, lookup, activePool>>

\* private configs: ConnectionConfig[] = []
InitConfig ==
    /\ ALLOW_INSERT_OPERATION = FALSE /\ ALLOW_UPDATE_OPERATION = FALSE
    /\ ALLOW_DELETE_OPERATION = FALSE /\ ALLOW_DDL_OPERATION = FALSE
    /\ SCHEMA_INSERT_PERMISSIONS = EmptyMap
    /\ SCHEMA_UPDATE_PERMISSIONS = EmptyMap
    /\ SCHEMA_DELETE_PERMISSIONS = EmptyMap
    /\ SCHEMA_DDL_PERMISSIONS = EmptyMap
    /\ MYSQL_DB = NoSchema
    /\ InitCall
    /\ configs = <<>> /\ connections = <<>> /\ activeConnectionId = NoId
    /\ pools = <<>>
    /\ tasks = [t \in MTasks |-> IdleTask]

NextConfig ==
    \/ Manager_Initialize \/ Manager_GetAvailableConnections \/ Return

SpecConfig == InitConfig /\ [][NextConfig]_vars

\* ------------------------------------- response text of a committed write
\* A text is the sequence of the pieces the template or JSON.stringify puts
\* one after the other. An object is the sequence of its <<key, value>>
\* entries in insertion order.
JSUndefined == [type |-> "undefined"]
JSEntries(entries) == [type |-> "object", entries |-> entries]
JSArray(items) == [type |-> "array", items |-> items]

\* response.key
Get(object, key) ==
    IF object.type = "object" /\ \E i \in DOMAIN object.entries :
                                    object.entries[i][1] = key
    THEN LET i == CHOOSE j \in DOMAIN object.entries :
                      object.entries[j][1] = key
         IN  object.entries[i][2]
    ELSE JSUndefined

\* `${value}` in a template literal
Interpolate(value) ==
    IF value.type = "number" THEN ToString(value.value) ELSE value.type

\* value || 0
OrZero(value) ==
    IF value.type = "number" /\ value.value # 0 THEN value ELSE JSNumber(0)

Pad(n) == [i \in 1..n |-> " "]

RECURSIVE StringifyAll(_, _, _, _)
\* JSON.stringify(value, null, 2), at nesting depth `depth`
Stringify(value, depth) ==
    IF value.type = "number" THEN <<ToString(value.value)>>
    ELSE IF value.type = "array"
    THEN IF value.items = <<>> THEN <<"[]">>
         ELSE <<"[", "\n">> \o StringifyAll(value.items, FALSE, 1, depth + 1)
                  \o Pad(2 * depth) \o <<"]">>
    ELSE IF value.entries = <<>> THEN <<"{}">>
         ELSE <<"{", "\n">> \o StringifyAll(value.entries, TRUE, 1, depth + 1)
                  \o Pad(2 * depth) \o <<"}">>

\* the members from the i-th on, one per line, separated by commas
StringifyAll(members, keyed, i, depth) ==
    IF i > Len(members) THEN <<>>
    ELSE Pad(2 * depth)
         \o (IF keyed
             THEN <<"\"", members[i][1], "\": ">>
                  \o Stringify(members[i][2], depth)
             ELSE Stringify(members[i], depth))
         \o (IF i < Len(members) THEN <<",", "\n">> ELSE <<"\n">>)
         \o StringifyAll(members, keyed, i + 1, depth)

\* what connection.query resolves with, first element: the ResultSetHeader of
\* a write, or the rows of a SELECT
ResultSetHeaders ==
    {JSEntries(<<<<"affectedRows", JSNumber(n)>>>> \o insert \o changed) :
        n \in 0..MaxRows,
        insert \in {<<>>, <<<<"insertId", JSNumber(42)>>>>},
        changed \in {<<>>} \cup
                    {<<<<"changedRows", JSNumber(m)>>>> : m \in 0..MaxRows}}

RowSets ==
    {JSArray([i \in 1..n |-> JSEntries(<<<<"id", JSNumber(i)>>>>)]) :
        n \in 0..MaxRows}

Responses == ResultSetHeaders \cup RowSets

\* mutant: the update branch is tested before the insert branch
formatResponse_updateFirst(q, response) ==
    LET onSchema == <<" on schema '", SchemaOrDefault(q), "'.">>
        affected == <<" Affected rows: ",
                      Interpolate(Get(response, "affectedRows"))>>
    IN  IF isUpdateOperation(q)
        THEN <<"Update successful">> \o onSchema \o affected
             \o <<", Changed rows: ",
                  Interpolate(OrZero(Get(response, "changedRows")))>>
        ELSE IF isInsertOperation(q)
        THEN <<"Insert successful">> \o onSchema \o affected
             \o <<", Last insert ID: ",
                  Interpolate(Get(response, "insertId"))>>
        ELSE IF isDeleteOperation(q)
        THEN <<"Delete successful">> \o onSchema \o affected
        ELSE IF isDDLOperation(q)
        THEN <<"DDL operation successful">> \o onSchema
        ELSE Stringify(response, 0)

\* the whole response text: responseText(q) is its first piece
formatResponse(q, response) ==
    LET onSchema == <<" on schema '", SchemaOrDefault(q), "'.">>
        affected == <<" Affected rows: ",
                      Interpolate(Get(response, "affectedRows"))>>
    IN  IF responseText(q) = "Insert successful"
        THEN <<responseText(q)>> \o onSchema \o affected
             \o <<", Last insert ID: ",
                  Interpolate(Get(response, "insertId"))>>
        ELSE IF responseText(q) = "Update successful"
        THEN <<responseText(q)>> \o onSchema \o affected
             \o <<", Changed rows: ",
                  Interpolate(OrZero(Get(response, "changedRows")))>>
        ELSE IF responseText(q) = "Delete successful"
        THEN <<responseText(q)>> \o onSchema \o affected
        ELSE IF responseText(q) = "DDL operation successful"
        THEN <<responseText(q)>> \o onSchema
        ELSE Stringify(response, 0)

InitFormat ==
    /\ ALLOW_INSERT_OPERATION = FALSE
    /\ ALLOW_UPDATE_OPERATION = FALSE
    /\ ALLOW_DELETE_OPERATION = FALSE
    /\ ALLOW_DDL_OPERATION = FALSE
    /\ SCHEMA_INSERT_PERMISSIONS = EmptyMap
    /\ SCHEMA_UPDATE_PERMISSIONS = EmptyMap
    /\ SCHEMA_DELETE_PERMISSIONS = EmptyMap
    /\ SCHEMA_DDL_PERMISSIONS = EmptyMap
    /\ MYSQL_DB = NoSchema
    /\ InitCall
    /\ InitManager({}, {})

\* one application, to one text and one response
Apply_formatResponse ==
    /\ pc = "idle" /\ lookup = NoLookup
    /\ \E q \in {t \in SqlTexts : t.parses}, response \in Responses :
        /\ sql' = q
        /\ lookup' = [category |-> "formatResponse", response |-> response,
                      text |-> formatResponse(q, response)]
    /\ UNCHANGED <<config, manager, activePool, poolPromise, session, pc,
                   entry, connection, error, result, hist>>

NextFormat == Apply_formatResponse

SpecFormat == InitFormat /\ [][NextFormat]_vars

\* ===================================================================
\* Properties
\* ===================================================================

Count(op) == Cardinality({i \in DOMAIN trace : trace[i].op = op})
Invoked(op) == \E i \in DOMAIN trace : trace[i].op = op
Happened(op, ok) == \E i \in DOMAIN trace : trace[i] = Op(op, ok)
Acquired == Cardinality({i \in DOMAIN trace : trace[i] = Op("getConnection", TRUE)})
Released == Count("release")
CleanupFailed ==
    \E i \in DOMAIN trace : trace[i].op \in {"rollback", SetReadWrite} /\ ~trace[i].ok
AnyFailure == \E i \in DOMAIN trace : ~trace[i].ok

\* the statement contains a kind of category c
isOperation(c, q) ==
    CASE c = "insert" -> isInsertOperation(q)
      [] c = "update" -> isUpdateOperation(q)
      [] c = "delete" -> isDeleteOperation(q)
      [] c = "ddl"    -> isDDLOperation(q)

\* the verdict of the permission function of category c
isAllowed(c, schema) ==
    CASE c = "insert" -> Truthy(isInsertAllowedForSchema(schema))
      [] c = "update" -> Truthy(isUpdateAllowedForSchema(schema))
      [] c = "delete" -> Truthy(isDeleteAllowedForSchema(schema))
      [] c = "ddl"    -> Truthy(isDDLAllowedForSchema(schema))

HasDeniedKind(q) ==
    \E c \in Categories :
        isOperation(c, q) /\ ~isAllowed(c, extractSchemaFromQuery(q))

HasWriteKind(q) == \E c \in Categories : isOperation(c, q)

Checked == entry = "executeReadOnlyQuery" /\ pc \notin {"idle", "ro_classify"}

\* C1: in executeReadOnlyQuery, a statement with an insert, update, delete or
\* DDL kind that the permission functions deny for the resolved schema ends
\* in an isError:true envelope, and the invocation calls neither getPool nor
\* getConnection, beginTransaction or the statement query.
C1_DeniedWriteAcquiresNothing ==
    (Checked /\ sql.parses /\ HasDeniedKind(sql))
        => /\ pc = "done"
           /\ result.kind = "envelope"
           /\ result.isError
           /\ trace = <<>>

C1_Witness ==
    /\ Checked /\ sql.parses /\ HasDeniedKind(sql)
    /\ pc = "done" /\ result.kind = "envelope" /\ result.isError
    /\ isDDLOperation(sql) /\ isInsertOperation(sql)

\* C3: on every exit path of executeQuery, executeReadOnlyQuery and
\* executeWriteQuery release is called exactly once on the connection that
\* getConnection returned, and never when none was acquired.
C3_ReleasedExactlyOnce ==
    /\ Released <= Acquired
    /\ pc = "done" => Released = Acquired

C3_Witness ==
    /\ pc = "done" /\ Acquired = 1 /\ Released = 1
    /\ Happened("query", FALSE) /\ Happened("rollback", FALSE)

\* C4: when the classification has no insert, update, delete or DDL kind,
\* executeReadOnlyQuery runs the read-only strategy: the statement runs after
\* SET SESSION TRANSACTION READ ONLY and beginTransaction, commit is never
\* invoked, a begun transaction is followed by a rollback (which closes it
\* unless the driver fails every rollback), and nothing becomes durable.
C4_ReadOnlyNeverCommits ==
    (Checked /\ sql.parses /\ ~HasWriteKind(sql))
        => /\ strategy = "read-only"
           /\ Count("commit") = 0
           /\ ~dbChanged
           /\ \A i \in DOMAIN trace : trace[i].op = "query" =>
                \E j, k \in 1..(i - 1) :
                    /\ j < k
                    /\ trace[j] = Op(SetReadOnly, TRUE)
                    /\ trace[k] = Op("beginTransaction", TRUE)
           /\ pc = "done" =>
                \A i \in DOMAIN trace : trace[i] = Op("beginTransaction", TRUE) =>
                    \E j \in DOMAIN trace : j > i /\ trace[j].op = "rollback"
           /\ (pc = "done" /\ Happened("rollback", TRUE)) => ~session.txnOpen

C4_Witness ==
    /\ Checked /\ sql.parses /\ ~HasWriteKind(sql)
    /\ pc = "done" /\ Happened("query", FALSE)
    /\ Happened("rollback", TRUE) /\ ~session.txnOpen

\* C5: every connection executeReadOnlyQuery releases has had SET SESSION
\* TRANSACTION READ WRITE issued on it after SET SESSION TRANSACTION READ ONLY
\* (here: after it took effect) and before the release.
C5_ResetBeforeRelease ==
    \A i, j \in DOMAIN trace :
        (j < i /\ trace[j] = Op(SetReadOnly, TRUE) /\ trace[i].op = "release")
            => \E k \in (j + 1)..(i - 1) : trace[k].op = SetReadWrite

\* C6: when the statement fails on the read-only path and the cleanup
\* operations succeed, rollback is invoked exactly once, SET SESSION
\* TRANSACTION READ WRITE exactly once, release exactly once, and the
\* statement's error is thrown.
C6_FailedReadCleansUpOnce ==
    (pc = "done" /\ strategy = "read-only" /\ Happened("query", FALSE)
        /\ ~CleanupFailed)
        => /\ Count("rollback") = 1
           /\ Count(SetReadWrite) = 1
           /\ Count("release") = 1
           /\ result = Thrown("statement failed")

\* C7: when the statement fails with E and a following rollback or session
\* reset fails with E2, the caller is told E: executeReadOnlyQuery throws E
\* and the envelope of executeWriteQuery carries E's message.
C7_PrimaryErrorReported ==
    (pc = "done" /\ Happened("query", FALSE) /\ CleanupFailed)
        => CASE strategy = "read-only" -> result = Thrown("statement failed")
             [] strategy = "write" ->
                    /\ result.kind = "envelope"
                    /\ result.isError
                    /\ result.text.cause = "statement failed"
             [] OTHER -> TRUE

\* C8: executeWriteQuery never throws: a failure of pool creation, connection
\* acquisition, beginTransaction, the statement, commit or rollback yields a
\* returned envelope with isError:true.
C8_WriteNeverThrows ==
    strategy = "write"
        => /\ result.kind # "thrown"
           /\ pc = "done" =>
                /\ result.kind = "envelope"
                /\ AnyFailure => result.isError

C8_Witness ==
    /\ strategy = "write" /\ pc = "done"
    /\ Happened("commit", FALSE) /\ Happened("rollback", FALSE)
    /\ result.kind = "envelope" /\ result.isError

\* C9: in executeWriteQuery the statement runs only after beginTransaction
\* succeeded; commit is invoked only after the statement succeeded, and then
\* exactly once; if the statement fails, rollback is invoked, commit is not,
\* and the result has isError:true.
C9_WriteTransactionOrder ==
    strategy = "write"
        => /\ \A i \in DOMAIN trace : trace[i].op = "query" =>
                \E j \in 1..(i - 1) : trace[j] = Op("beginTransaction", TRUE)
           /\ \A i \in DOMAIN trace : trace[i].op = "commit" =>
                \E j \in 1..(i - 1) : trace[j] = Op("query", TRUE)
           /\ Count("commit") <= 1
           /\ (pc = "done" /\ Happened("query", TRUE)) => Count("commit") = 1
           /\ (pc = "done" /\ Happened("query", FALSE)) =>
                /\ Invoked("rollback")
                /\ Count("commit") = 0
                /\ result.kind = "envelope"
                /\ result.isError

C9_Witness ==
    /\ strategy = "write" /\ pc = "done"
    /\ Happened("beginTransaction", TRUE) /\ Happened("query", FALSE)
    /\ Happened("rollback", TRUE) /\ result.isError

GlobalDefault(c) ==
    CASE c = "insert" -> ALLOW_INSERT_OPERATION
      [] c = "update" -> ALLOW_UPDATE_OPERATION
      [] c = "delete" -> ALLOW_DELETE_OPERATION
      [] c = "ddl"    -> ALLOW_DDL_OPERATION

OverrideMap(c) ==
    CASE c = "insert" -> SCHEMA_INSERT_PERMISSIONS
      [] c = "update" -> SCHEMA_UPDATE_PERMISSIONS
      [] c = "delete" -> SCHEMA_DELETE_PERMISSIONS
      [] c = "ddl"    -> SCHEMA_DDL_PERMISSIONS

\* C10: for every category and every schema name without an entry in that
\* category's override map (an absent schema included) the verdict of the
\* permission function is the global default of the category.
C10_NoEntryMeansGlobalDefault ==
    (lookup.category # "none" /\ lookup.schema \notin DOMAIN OverrideMap(lookup.category))
        => lookup.verdict = JSBoolean(GlobalDefault(lookup.category))

\* C2: for every mysql_query invocation, of the schema-permission server and
\* of the multi-connection server, commit is invoked only if the
\* classification has a write/DDL kind and every write/DDL kind in it was
\* allowed by a permission function before a connection was acquired.
C2_CommitOnlyAfterAllowVerdicts ==
    (entry \in {"executeReadOnlyQuery", "mysql_query"} /\ Invoked("commit"))
        => /\ HasWriteKind(sql)
           /\ \A c \in Categories : isOperation(c, sql) => c \in verdicts

\* C11: for every category and every schema with an override entry v in the
\* category's map, the verdict of the permission function is v, whatever the
\* global default of the category is.
C11_OverrideEntryDecides ==
    (lookup.category \in Categories
        /\ lookup.schema \in DOMAIN OverrideMap(lookup.category))
        => lookup.verdict =
                JSBoolean(OverrideMap(lookup.category)[lookup.schema])

\* an override of false blocks an update that is globally enabled
C11_Witness ==
    /\ lookup.category = "update"
    /\ lookup.schema \in DOMAIN SCHEMA_UPDATE_PERMISSIONS
    /\ ~SCHEMA_UPDATE_PERMISSIONS[lookup.schema]
    /\ ALLOW_UPDATE_OPERATION
    /\ ~Truthy(lookup.verdict)

\* the envelope of a failed permission check
IsDenial(res) ==
    /\ res.kind = "envelope"
    /\ res.isError
    /\ res.text.msg = "operations are not allowed for schema"

\* C12: executeReadOnlyQuery authorizes an input exactly if every insert,
\* update, delete or DDL category present in it is allowed for the resolved
\* schema; select kinds play no part; a denied input gets the denial
\* envelope and none of its statements is executed, an authorized one goes
\* to the write strategy (some category present) or the read-only strategy.
C12_AuthorizedIffEveryKindAllowed ==
    (Checked /\ sql.parses)
        => /\ HasDeniedKind(sql) <=> (pc = "done" /\ IsDenial(result))
           /\ HasDeniedKind(sql) => (strategy = "none" /\ trace = <<>>)
           /\ ~HasDeniedKind(sql) =>
                strategy = IF HasWriteKind(sql) THEN "write" ELSE "read-only"

\* an allowed insert and a denied update for the same schema: denied
C12_Witness ==
    /\ Checked /\ sql.parses /\ pc = "done" /\ IsDenial(result)
    /\ isInsertOperation(sql) /\ isUpdateOperation(sql)
    /\ isAllowed("insert", extractSchemaFromQuery(sql))
    /\ ~isAllowed("update", extractSchemaFromQuery(sql))

\* C13: extractSchemaFromQuery returns the result of the first applicable
\* rule: (1) the configured default schema when not in multi-DB mode; (2) the
\* identifier of a USE statement found in the text; (3) the first identifier
\* of the first identifier.identifier pattern; (4) the configured default, or
\* null when there is none.
C13_FirstApplicableRule ==
    lookup.category = "extractSchemaFromQuery"
        => lookup.schema =
            IF MYSQL_DB # NoSchema /\ ~isMultiDbMode THEN MYSQL_DB
            ELSE IF sql.useStmt # NoSchema THEN sql.useStmt
            ELSE IF sql.dbTableMatch # NoSchema THEN sql.dbTableMatch
            ELSE MYSQL_DB

\* C14: in multi-DB mode, when the resolved schema of a query is null, only
\* read operations are allowed: a statement containing an insert, update,
\* delete or DDL kind is denied and never executed.
C14_NullSchemaIsReadOnly ==
    (Checked /\ sql.parses /\ isMultiDbMode
        /\ extractSchemaFromQuery(sql) = NoSchema /\ HasWriteKind(sql))
        => /\ pc = "done"
           /\ IsDenial(result)
           /\ ~Invoked("query")

\* the operations a step adds to the trace of the call in progress
Added(op) == {i \in DOMAIN trace' : i > Len(trace) /\ trace'[i].op = op}

\* C15: getPool constructs the pool on the first call only: over any
\* sequence of getPool calls, once the first construction has succeeded no
\* step invokes createPool again, the stored promise stays the one that was
\* resolved and every later getPool resolves to it; the step that stores the
\* promise invokes createPool exactly once.
C15_PoolConstructedOnce ==
    [][/\ poolPromise = "resolved"
            => /\ poolPromise' = "resolved"
               /\ Added("createPool") = {}
               /\ \A i \in Added("getPool") : trace'[i].ok
       /\ (poolPromise = "unset" /\ poolPromise' # "unset")
            => Cardinality(Added("createPool")) = 1]_vars

C15_Witness ==
    /\ poolPromise = "resolved"
    /\ Happened("getPool", TRUE)
    /\ ~Invoked("createPool")
    /\ entry = "executeReadOnlyQuery"

\* C16: if pool construction fails on the first getPool call, the failure is
\* surfaced to that caller, and a later getPool call attempts construction
\* again: a call in which getPool fails has itself invoked createPool, and
\* the caller of a failed getPool is told of the failure.
C16_FailedConstructionIsRetried ==
    Happened("getPool", FALSE)
        => /\ Invoked("createPool")
           /\ error = "createPool failed"

\* the signal handlers' tasks that have invoked pool.end()
EndInvoked == {t \in MTasks : tasks[t].pool = ThePool}

\* C17: shutdown closes the pool if and only if getPool was ever called:
\* invoked before first use it performs no pool operation and creates no
\* pool, and invoked repeatedly (SIGINT followed by SIGTERM) it ends the
\* pool at most once.
C17_ShutdownEndsPoolOnce ==
    /\ Cardinality(EndInvoked) <= 1
    /\ \A t \in MTasks :
        /\ tasks[t].result = "nothing to close" => tasks[t].pool = NoPool
        /\ tasks[t].pool = ThePool => poolPromise = "resolved"

\* the step is one of connectToDatabase, made by task t
ConnectStep(t) ==
    /\ tasks'[t] # tasks[t]
    /\ tasks[t].pc \in {"idle", "c_getConnection", "c_ping"}
    /\ \/ tasks'[t].pc \in {"c_getConnection", "c_ping"}
       \/ /\ tasks'[t].pc = "done"
          /\ tasks'[t].result \in {"configuration not found", "switched",
                                   "failed to connect", "connected"}

ConnectFailed(task) ==
    task.pc = "done"
        /\ task.result \in {"configuration not found", "failed to connect"}

\* C18: connectToDatabase(id) fails with an error when id is not in the
\* loaded configuration set, and no step of a connect that fails (unknown
\* id, connection acquisition failure or ping failure) changes the pool map
\* or the active connection id.
C18_FailedConnectChangesNothing ==
    [][\A t \in MTasks : ConnectStep(t) =>
        /\ (tasks[t].pc = "idle" /\ tasks'[t].connectionId \notin configs)
                => ConnectFailed(tasks'[t])
        /\ tasks'[t].result \notin {"switched", "connected"}
                => UNCHANGED <<connections, activeConnectionId>>]_vars

C18_Witness ==
    /\ ConnectFailed(tasks["t1"])
    /\ tasks["t1"].held
    /\ connections # <<>>
    /\ activeConnectionId \notin {NoId, tasks["t1"].connectionId}

ConnectSucceeded(task) ==
    task.pc = "done" /\ task.result \in {"switched", "connected"}

\* C19: after a successful connectToDatabase(id), id is the active connection
\* id and the pool map holds exactly one pool for id, which is open: a pool
\* of id that was open already is reused without createPool, otherwise the
\* pool is a new one, stored and made active only after a connection was
\* acquired from it and a ping succeeded.
C19_SuccessfulConnectHasOpenPool ==
    \A t \in MTasks : ConnectSucceeded(tasks[t]) =>
        LET id == tasks[t].connectionId IN
        /\ activeConnectionId = id
        /\ Cardinality({i \in DOMAIN connections : connections[i].id = id}) = 1
        /\ pools[MapGet(id)] = "open"
        /\ tasks[t].result = "switched" => tasks[t].pool = NoPool
        /\ tasks[t].result = "connected"
                => MapGet(id) = tasks[t].pool /\ ~tasks[t].held

\* the step is one of disconnect, made by task t
DisconnectStep(t) ==
    /\ tasks'[t] # tasks[t]
    /\ \/ tasks[t].pc = "idle" /\ tasks'[t].pc = "d_end"
       \/ /\ tasks[t].pc \in {"idle", "d_end"} /\ tasks'[t].pc = "done"
          /\ tasks'[t].result \in {"no active connection", "disconnected",
                                   "failed to disconnect"}

\* the pool map without the entries of pool p
WithoutPool(p) == SelectSeq(connections, LAMBDA e : e.pool # p)

\* C20: disconnect() ends the pool of the currently active id, removes
\* exactly that id's pool from the pool map, leaving every other pool in
\* place and open, and sets the active id to null; when no id is active it
\* changes nothing, performs no pool operation and returns an informative
\* result.
C20_DisconnectRemovesItsPool ==
    [][\A t \in MTasks : DisconnectStep(t) =>
        /\ tasks'[t].pc = "d_end"
            => /\ activeConnectionId # NoId
               /\ tasks'[t].pool = MapGet(activeConnectionId)
               /\ pools' = Ended(tasks'[t].pool)
               /\ UNCHANGED <<connections, activeConnectionId>>
        /\ tasks'[t].result = "disconnected"
            => /\ connections' = WithoutPool(tasks[t].pool)
               /\ activeConnectionId' = NoId
               /\ UNCHANGED pools
        /\ tasks'[t].result = "no active connection"
            => /\ activeConnectionId = NoId
               /\ UNCHANGED <<connections, activeConnectionId, pools>>]_vars

NoActiveConnection ==
    [kind |-> "thrown", error |-> "No active database connection"]

\* C21: in the multi-connection server, mysql_query executes on the pool of
\* the connection id that is active when it is called and keeps that pool to
\* its end; when no connection is active it fails with an error without
\* acquiring a connection or executing a statement.
C21_QueryTargetsActivePool ==
    [][/\ (pc = "idle" /\ entry' = "mysql_query")
            => activePool' = IF activeConnectionId = NoId THEN NoPool
                             ELSE MapGet(activeConnectionId)
       /\ (entry = "mysql_query" /\ pc # "done")
            => /\ activePool' = activePool
               /\ (activePool = NoPool /\ pc' # pc)
                    => /\ pc' = "done" /\ result' = NoActiveConnection
                       /\ trace' = <<>>
               /\ (\E i \in Added("getConnection") : trace'[i].ok)
                    => /\ activePool # NoPool
                       /\ pools[activePool] = "open"]_vars

C21_Witness ==
    /\ entry = "mysql_query" /\ pc = "done"
    /\ result = NoActiveConnection
    /\ trace = <<>>
    /\ connections # <<>>

\* C22: in executeReadOnlyQuery a classification (parse) failure reaches the
\* caller as a thrown error and never as an envelope, an authorization denial
\* as an isError:true envelope and never as a thrown error; and nothing else
\* is reported as either.
C22_ParseThrowsDenialReturns ==
    Checked =>
        /\ ~sql.parses <=> (pc = "done" /\ result = Thrown("Parsing failed"))
        /\ (sql.parses /\ HasDeniedKind(sql))
                <=> (pc = "done" /\ IsDenial(result))
        /\ ~sql.parses => trace = <<>>

C22_Witness ==
    /\ Checked /\ ~sql.parses
    /\ pc = "done" /\ result.kind = "thrown"
    /\ poolPromise = "resolved"

\* C23: in mysql_query of the multi-connection server, a write/DDL statement
\* that fails is rolled back and the failure is reported to the caller as a
\* returned envelope with isError:true, not as a thrown error.
C23_MultiWriteFailureIsEnvelope ==
    (entry = "mysql_query" /\ pc = "done" /\ strategy = "write"
        /\ Happened("query", FALSE))
        => /\ Invoked("rollback")
           /\ result.kind = "envelope"
           /\ result.isError

\* task t makes a driver call on its connection in this step
IssuesOp(t) ==
    tasks[t].pc \in DOMAIN ExecOp /\ tasks'[t].pc # tasks[t].pc

\* C24: under any interleaving of concurrent invocations no connection is
\* held by two in-flight executions at once, and each execution issues its
\* session-mode, begin, statement and commit/rollback operations only on the
\* connection it acquired itself, between acquiring and releasing it.
C24_ConnectionOwnedExclusively ==
    [][/\ \A t, u \in MTasks :
            (t # u /\ tasks[t].held /\ tasks[u].held)
                => tasks[t].connection # tasks[u].connection
       /\ \A t \in MTasks : IssuesOp(t) =>
            /\ tasks[t].connection \in PoolConnections
            /\ tasks[t].held
            /\ \A u \in MTasks \ {t} :
                tasks[u].pc \in DOMAIN ExecOp
                    => tasks[u].connection # tasks[t].connection]_vars

C24_Witness ==
    /\ tasks["t1"].pc = "ro_query" /\ tasks["t1"].held
    /\ tasks["t2"].pc = "done" /\ ~tasks["t2"].held
    /\ tasks["t2"].connection = tasks["t1"].connection

\* a statement, commit or rollback failed at position i of the trace
FailedAt(i) ==
    trace[i].op \in {"query", "commit", "rollback"} /\ ~trace[i].ok

\* C25: within one invocation of executeReadOnlyQuery or executeWriteQuery
\* the caller's statement is sent to the database at most once: after a
\* failed statement, commit or rollback it is not executed again, and a
\* failed write ends in one error envelope.
C25_StatementSentAtMostOnce ==
    entry \in {"executeReadOnlyQuery", "executeWriteQuery"} =>
        /\ Count("query") <= 1
        /\ \A i, j \in DOMAIN trace :
                (i < j /\ FailedAt(i)) => trace[j].op # "query"
        /\ (pc = "done" /\ strategy = "write"
                /\ \E i \in DOMAIN trace : FailedAt(i))
                => /\ result.kind = "envelope"
                   /\ result.isError
                   /\ ~Happened("query", TRUE) => ~dbChanged

C25_Witness ==
    /\ entry = "executeReadOnlyQuery" /\ strategy = "write" /\ pc = "done"
    /\ Happened("query", TRUE) /\ Happened("commit", FALSE)
    /\ Count("query") = 1
    /\ result.kind = "envelope" /\ result.isError

\* the calls made on the pool and the connection, in order
DriverOps == SelectSeq(trace, LAMBDA o : o.op \notin {"createPool", "getPool"})

ReadOnlySuccessOrder ==
    <<Op("getConnection", TRUE), Op(SetReadOnly, TRUE),
      Op("beginTransaction", TRUE), Op("query", TRUE), Op("rollback", TRUE),
      Op(SetReadWrite, TRUE), Op("release", TRUE)>>

\* C26: on a successful read-only execution the driver operations are, in
\* this order, getConnection, SET SESSION TRANSACTION READ ONLY,
\* beginTransaction, the statement, rollback, SET SESSION TRANSACTION READ
\* WRITE, release; as long as nothing fails the operations made so far are a
\* prefix of that order, and the isError:false result exists only after the
\* release.
C26_ReadOnlySuccessOrder ==
    strategy = "read-only" =>
        /\ ~AnyFailure =>
                /\ Len(DriverOps) <= Len(ReadOnlySuccessOrder)
                /\ DriverOps = SubSeq(ReadOnlySuccessOrder, 1, Len(DriverOps))
        /\ (result.kind = "envelope" /\ ~result.isError)
                <=> DriverOps = ReadOnlySuccessOrder

C26_Witness ==
    /\ strategy = "read-only" /\ pc = "done"
    /\ result.kind = "envelope" /\ ~result.isError
    /\ DriverOps = ReadOnlySuccessOrder

\* C27: every value a mysql_query invocation returns, in every variant and
\* for success, denial and reported write failure alike, is a single envelope
\* with one text content item and a boolean isError flag, true exactly for
\* denials and errors and false exactly for successes.
C27_EnvelopeHasBooleanFlag ==
    (pc = "done" /\ result.kind = "envelope"
        /\ entry \in {"mysql_query", "executeReadOnlyQuery"})
        => /\ DOMAIN result = {"kind", "isError", "text"}
           /\ result.isError \in BOOLEAN
           /\ result.isError <=> (AnyFailure \/ HasDeniedKind(sql))

\* C28: what loadConnections returns, and so what ConnectionManager holds, has
\* pairwise distinct ids, and in each entry a non-empty id, host and database
\* name and a positive numeric port; a file with an entry that breaks one of
\* these makes loading throw; once loaded the configurations never change.
WellFormed(conn) ==
    /\ conn.type = "object"
    /\ {"id", "host", "port", "name"} \subseteq DOMAIN conn.fields
    /\ \A f \in {"id", "host", "name"} :
        conn.fields[f].type = "string" /\ conn.fields[f].value # ""
    /\ conn.fields.port.type = "number" /\ conn.fields.port.value > 0
DistinctIds(items) ==
    \A i, j \in DOMAIN items : i # j => items[i].fields.id # items[j].fields.id
LoadedConfigsValid ==
    /\ \A i \in DOMAIN configs : WellFormed(configs[i])
    /\ DistinctIds(configs)
    /\ lookup.category = "loadConnections" =>
        LET file == lookup.file IN
        /\ lookup.thrown = NoError =>
            configs = IF file.kind = "absent" THEN <<>> ELSE file.value.items
        /\ (/\ file.kind = "parsed" /\ file.value.type = "array"
            /\ \/ \E i \in DOMAIN file.value.items :
                    ~WellFormed(file.value.items[i])
               \/ ~DistinctIds(file.value.items))
           => lookup.thrown # NoError
C28_LoadedConfigsValidAndFixed ==
    [][/\ LoadedConfigsValid'
       /\ lookup.category = "loadConnections" => configs' = configs]_vars
C28_Witness ==
    /\ lookup.category = "loadConnections" /\ lookup.thrown = NoError
    /\ Len(configs) = MaxConfigs
    /\ pc = "done" /\ result = [kind |-> "configs", value |-> configs]

\* C29: the text of a committed write is chosen by the kinds of the text, an
\* insert before an update before a delete before DDL. The insert text has
\* 'Affected rows: n' and 'Last insert ID: id', the update text 'Affected
\* rows: n' and 'Changed rows: m', m being 0 when the driver reports no
\* changedRows, the delete text 'Affected rows: n'; a text of no such kind
\* gives the JSON serialization of the result, indented by two.
Contains(text, pieces) ==
    \E i \in 0..(Len(text) - Len(pieces)) :
        SubSeq(text, i + 1, i + Len(pieces)) = pieces
HasKind(kinds) == \E i \in DOMAIN sql.types : sql.types[i] \in kinds
Reported(key) ==
    IF lookup.response.type # "object" THEN {}
    ELSE LET at == {i \in DOMAIN lookup.response.entries :
                        lookup.response.entries[i][1] = key}
         IN  {ToString(lookup.response.entries[i][2].value) : i \in at}
AffectedShown ==
    \A n \in Reported("affectedRows") :
        Contains(lookup.text, <<" Affected rows: ", n>>)
C29_WriteSuccessText ==
    lookup.category = "formatResponse" =>
        /\ HasKind({"insert"}) =>
            /\ lookup.text[1] = "Insert successful"
            /\ AffectedShown
            /\ \A id \in Reported("insertId") :
                Contains(lookup.text, <<", Last insert ID: ", id>>)
        /\ (HasKind({"update"}) /\ ~HasKind({"insert"})) =>
            /\ lookup.text[1] = "Update successful"
            /\ AffectedShown
            /\ \A m \in Reported("changedRows") :
                Contains(lookup.text, <<", Changed rows: ", m>>)
            /\ Reported("changedRows") = {} =>
                Contains(lookup.text, <<", Changed rows: ", "0">>)
        /\ (HasKind({"delete"}) /\ ~HasKind({"insert", "update"})) =>
            /\ lookup.text[1] = "Delete successful"
            /\ AffectedShown
        /\ (HasKind(DDLTypes) /\ ~HasKind({"insert", "update", "delete"})) =>
            lookup.text[1] = "DDL operation successful"
        /\ ~HasKind({"insert", "update", "delete"} \cup DDLTypes) =>
            /\ lookup.text = Stringify(lookup.response, 0)
            /\ lookup.response = JSArray(<<>>) => lookup.text = <<"[]">>
            /\ lookup.response.type = "object" =>
                /\ lookup.text[1] = "{" /\ lookup.text[Len(lookup.text)] = "}"
                /\ Contains(lookup.text,
                            <<"\n", " ", " ", "\"", "affectedRows", "\": ">>)
C29_Witness ==
    /\ lookup.category = "formatResponse"
    /\ sql.types = <<"update", "insert">>
    /\ lookup.text = <<"Insert successful", " on schema '", "default", "'.",
                       " Affected rows: ", "1", ", Last insert ID: ", "42">>

\* C30: closeAllConnections invokes end on every pool of the map, one after
\* the other, and goes on when an end fails; it returns without throwing only
\* when it has been through the whole map, and then the map is empty and no
\* connection is active.
CloseAllVisits(t) ==
    /\ tasks'[t].pc = "ca_end"
    /\ tasks[t].pc = "idle" \/ tasks'[t].cursor = tasks[t].cursor + 1
CloseAllLeaves(t) ==
    tasks[t].pc \in {"idle", "ca_end"} /\ tasks'[t].pc = "exited"
C30_CloseAllEndsEveryPool ==
    [][\A t \in MTasks :
        /\ CloseAllVisits(t) =>
            /\ tasks'[t].cursor \in DOMAIN connections
            /\ pools'[connections[tasks'[t].cursor].pool] = "ended"
            /\ connections' = connections
        /\ CloseAllLeaves(t) =>
            /\ tasks[t].cursor = Len(connections)
            /\ \A i \in DOMAIN connections :
                pools[connections[i].pool] = "ended"
            /\ tasks'[t].result = "closed"
            /\ connections' = <<>> /\ activeConnectionId' = NoId]_vars

\* C31: a statement that executeReadOnlyQuery let through is sent to the
\* database naming the schema the permission functions were asked about, so
\* it never runs on a schema whose override entry denies one of its kinds.
SentSchema == extractSchemaFromQuery(toLocaleLowerCase(sql))
OverrideDenies(c, schema) ==
    LET permissions ==
            CASE c = "insert" -> SCHEMA_INSERT_PERMISSIONS
              [] c = "update" -> SCHEMA_UPDATE_PERMISSIONS
              [] c = "delete" -> SCHEMA_DELETE_PERMISSIONS
              [] c = "ddl"    -> SCHEMA_DDL_PERMISSIONS
    IN  schema \in DOMAIN permissions /\ ~permissions[schema]
C31_SentTextTargetsCheckedSchema ==
    (entry = "executeReadOnlyQuery" /\ Invoked("query")) =>
        /\ SentSchema = extractSchemaFromQuery(sql)
        /\ \A c \in Categories :
            isOperation(c, sql) => ~OverrideDenies(c, SentSchema)

\* C32: executeWriteQuery returns an isError:true envelope only when the
\* transaction was not committed: after a successful commit the envelope has
\* isError:false and rollback is not invoked any more, also when the function
\* is called directly with a text that cannot be classified.
CommittedAt(i) == trace[i] = Op("commit", TRUE)
C32_CommittedWriteIsSuccess ==
    (strategy = "write" /\ Happened("commit", TRUE)) =>
        /\ \A i, j \in DOMAIN trace :
            (CommittedAt(i) /\ i < j) => trace[j].op # "rollback"
        /\ pc = "done" => result.kind = "envelope" /\ ~result.isError

\* C33: under any interleaving of connectToDatabase, disconnect and
\* closeAllConnections, end has not been called on any pool stored in the
\* pool map, so switching to an existing connection activates an open pool.
C33_StoredPoolsAreOpen ==
    \A i \in DOMAIN connections : pools[connections[i].pool] = "open"

\* C34: under any interleaving of the manager operations, a pool createPool
\* returned is stored in the pool map, or has been ended, or belongs to a
\* connectToDatabase that has not finished yet: no open pool is lost.
Stored(p) == \E i \in DOMAIN connections : connections[i].pool = p
Connecting(p) ==
    \E t \in MTasks :
        tasks[t].pc \in {"c_getConnection", "c_ping"} /\ tasks[t].pool = p
C34_NoOpenPoolIsLost ==
    \A p \in DOMAIN pools :
        pools[p] = "open" => Stored(p) \/ Connecting(p)

\* C35: under any interleaving of connectToDatabase, disconnect and
\* closeAllConnections, an active connection id is a key of the pool map and
\* the id of a loaded configuration: getCurrentConnection never fails with
\* 'Active connection configuration not found', and getActivePool gives no
\* pool only when no connection is active.
C35_ActiveIdIsStoredAndConfigured ==
    /\ activeConnectionId # NoId =>
        MapHas(activeConnectionId) /\ activeConnectionId \in configs
    /\ \A t \in MTasks : tasks[t].result # "active configuration not found"
    /\ getActivePool = NoPool => activeConnectionId = NoId
C35_Witness ==
    \E t, u \in MTasks :
        /\ tasks[t].pc = "done" /\ tasks[t].result = "current connection"
        /\ tasks[u].pc = "d_end"
        /\ activeConnectionId # tasks[u].connectionId
        /\ Len(connections) = 2

\* C38: connectToDatabase releases the connection it got for the health
\* check on every path, also when the ping fails.
C38_HealthCheckConnectionReleased ==
    \A t \in MTasks :
        (tasks[t].pc = "done" /\ tasks[t].connectionId # NoId) =>
            ~tasks[t].held

\* C36: getInstance resolves only to a manager whose configurations were
\* loaded: a caller that comes after a failed initialize gets no manager.
C36_GetInstanceGivesLoadedManager ==
    (pc = "done" /\ result.kind = "configs") => lookup.thrown = NoError

\* C37: a mysql_query in flight is not moved to another pool by a
\* connectToDatabase, disconnect or closeAllConnections that changes the
\* active connection meanwhile: such a step leaves the invocation where it
\* is, and the invocation takes its connection from the pool it read when it
\* started, whichever pool is active by then.
InFlight == entry = "mysql_query" /\ pc \notin {"idle", "done"}
ManagerChanges ==
    activeConnectionId' # activeConnectionId \/ connections' # connections
C37_InFlightQueryKeepsItsPool ==
    [][InFlight =>
        /\ ManagerChanges =>
            /\ activePool' = activePool
            /\ pc' = pc /\ connection' = connection /\ trace' = trace
        /\ pc = "mc_getConnection" /\ pc' # pc =>
            /\ activePool' = activePool
            /\ connection' => pools[activePool] = "open"]_vars
C37_Witness ==
    /\ entry = "mysql_query" /\ pc \in {"mc_w_begin", "mc_r_setReadOnly"}
    /\ connection /\ trace = <<Op("getConnection", TRUE)>>
    /\ activePool # NoPool /\ getActivePool # NoPool
    /\ getActivePool # activePool

\* C39: with more concurrent invocations than the pool has connections, and
\* every driver call settling, no execution ever holds more connections than
\* its one, an invocation that waits in getConnection gets past it, every
\* invocation ends with its connection released, and in the end no
\* connection is checked out.
CheckedOut == {t \in DOMAIN tasks : tasks[t].held}
Waiting(t) == tasks[t].pc = "idle" /\ FreeConnections = {}
C39_EveryInvocationEndsReleased ==
    /\ [](Cardinality(CheckedOut) <= MaxConns)
    /\ \A t \in Invocations :
        /\ Waiting(t) ~> tasks[t].pc # "idle"
        /\ <>[](tasks[t].pc = "done" /\ ~tasks[t].held)
    /\ <>[](CheckedOut = {})
C39_Witness ==
    /\ \A t \in DOMAIN tasks :
        /\ tasks[t].pc = "done" /\ ~tasks[t].held
        /\ tasks[t].connection \in PoolConnections
    /\ Cardinality(DOMAIN tasks) > MaxConns

====
